---- MODULE Spec2Model ----
(***************************************************************************)
(* Verification model of the markovian crate: the finite-state Markov      *)
(* chain (src/src/finite_markov_chain/fast_sample.rs), the generic process *)
(* engines, the branching and Poisson processes and the trajectory view.   *)
(*                                                                         *)
(* Indices are 0-based as in the Rust source; a Rust Vec v is a TLA+       *)
(* sequence and v[i] is written At(v, i).  A panic ends the run of the     *)
(* object: pc = "panicked" and ret names the operation that panicked.      *)
(* A randomness source is the finite stream of raw draws it will still     *)
(* produce; drawing consumes the head of the stream.                       *)
(***************************************************************************)
EXTENDS Integers, Sequences, FiniteSets, TLC

\* ---------------------------------------------------------------- bounds
MaxRows == 2      \* rows of a transition table given to a constructor
MaxCols == 2      \* columns of one row
WMax == 3         \* W::MAX of the (narrow) weight type
RngLen == 1       \* raw draws left in the randomness source of a finite chain
ProcRngLen == 2   \* raw draws left in the randomness source of a process
NumDraws == 2     \* distinct values of one raw draw
MaxState == 2     \* largest state a generic process is started at or set to
MaxOffspring == 2 \* largest offspring count of a base distribution
MaxChainState == 1 \* largest state of a chain driven by a transition function
MaxLambda == 2    \* largest rate of a Poisson process
MaxItems == 4     \* items pulled from one trajectory
MaxPairs == 2     \* most pairs of a Raw distribution
Grain == 3        \* probabilities and uniform draws are multiples of 1/Grain
MaxSpace == 4     \* longest state space handed to set_state_space
MaxDegree == 2    \* largest state of a pair of a density
MaxTerms == 3     \* most pairs of a finite density
MaxZ == 2         \* largest argument of the generating function
MaxLevel == 4     \* largest approximation level

\* the weights tried by the construction checks: negative, zero, positive
\* and the largest of the weight type
Weights == {0 - 1, 0, 1, WMax}
Draws == 0..(NumDraws - 1)
\* state values: the labels 10, 20, ...; the last one is in no state space
Label(k) == 10 * k
Labels == {Label(k) : k \in 1..(MaxRows + 1)}

VARIABLES
    pc,                           \* "init", "constructed" or "panicked"
    args,                         \* arguments handed to the constructor
    state_index,                  \* FiniteMarkovChain.state_index
    transition_matrix,            \* FiniteMarkovChain.transition_matrix
    transition_matrix_variables,  \* FiniteMarkovChain.transition_matrix_variables
    state_space,                  \* FiniteMarkovChain.state_space
    rng,                          \* FiniteMarkovChain.rng
    ret                           \* result of the last operation

\* the finite chain
fmcvars == <<pc, args, state_index, transition_matrix,
             transition_matrix_variables, state_space, rng, ret>>

VARIABLES
    kind,               \* the process type
    state,              \* the state field of MarkovChain, TimedMarkovChain,
                        \* Branching, BranchingProcess and Poisson
    transition,         \* MarkovChain.transition, TimedMarkovChain.transition
    base_distribution,  \* Branching.base_distribution
    exp,                \* Poisson.exp: the rate of its exponential clock
    transiton_clock,    \* ContFiniteMarkovChain.transiton_clock
    first,              \* the front half of the Chain that trajectory() returns
    origin,             \* state and randomness source when trajectory() was called
    out,                \* the items the trajectory has yielded
    call,               \* position inside a running next() of a branching process
    count,              \* local count of next() and of sample()
    acc,                \* local acc of next() and of sample()
    sample_rng          \* the rng argument of Distribution::sample

\* the other processes and the trajectory view
procvars == <<kind, state, transition, base_distribution, exp,
              transiton_clock, first, origin, out, call, count, acc,
              sample_rng>>

VARIABLES
    iter,               \* Raw.iter: the pairs (probability, value)
    debug_assertions    \* whether the build keeps debug_assert!

\* the Raw distribution and the build it runs in
rawvars == <<iter, debug_assertions>>

VARIABLES
    density,            \* discrete_time::Branching.density
    distr,              \* the Unary or Binary distribution that is sampled
    twin,               \* the fields of a second instance of the process
    thread_rng,         \* the generator of the thread, behind every ThreadRng
    uses_thread_rng,    \* whether the type R of the process is ThreadRng
    items               \* the items next() returned to each instance, and
                        \* whether set_state was called on one

\* the density, the combinators and the second instance
extvars == <<density, distr, twin, thread_rng, uses_thread_rng, items>>

vars == <<fmcvars, procvars, rawvars, extvars>>

\* no second instance
NoTwin == [a |-> "none", state |-> 0, state_index |-> 0, rng |-> <<>>]

\* no density
NoDensity == [a |-> "none", pairs |-> <<>>, prob |-> 0]

\* no combinator
NoDistr == [a |-> "none"]

NoExtras ==
    /\ density = NoDensity
    /\ distr = NoDistr
    /\ twin = NoTwin
    /\ thread_rng = <<>>
    /\ uses_thread_rng = FALSE
    /\ items = [self |-> <<>>, twin |-> <<>>, set |-> FALSE]

\* ------------------------------------------------------------- sequences
SeqsUpTo(S, n) == UNION {[1..k -> S] : k \in 0..n}

SeqsOfLen(S, n) == [1..n -> S]

At(v, i) == v[i + 1]

RECURSIVE SumSeq(_)
SumSeq(v) == IF v = <<>> THEN 0 ELSE Head(v) + SumSeq(Tail(v))

\* (0..n).collect(): the default state space of the From conversions
RangeVec(n) == [k \in 1..n |-> k - 1]

\* a state value that is not equal to itself, as f64::NAN is
NaN == 0 - 1

\* T: PartialEq, x == y
eq(x, y) == x = y /\ x # NaN

\* Position as a 1-based search would report it
Position_OneBased(v, x) ==
    IF \E k \in 1..Len(v) : eq(v[k], x)
    THEN CHOOSE k \in 1..Len(v) : eq(v[k], x) /\ \A m \in 1..(k - 1) : ~eq(v[m], x)
    ELSE 0 - 1

\* Position with a missing value reported as index 0
Position_MissingIsZero(v, x) ==
    IF \E k \in 1..Len(v) : eq(v[k], x)
    THEN (CHOOSE k \in 1..Len(v) : eq(v[k], x) /\ \A m \in 1..(k - 1) : ~eq(v[m], x)) - 1
    ELSE 0

\* iter().position(|s| *s == x): 0-based index of the first match, or -1
Position(v, x) ==
    IF \E k \in 1..Len(v) : eq(v[k], x)
    THEN (CHOOSE k \in 1..Len(v) : eq(v[k], x) /\ \A m \in 1..(k - 1) : ~eq(v[m], x)) - 1
    ELSE 0 - 1

\* ------------------------------------------------- WeightedAliasIndex<W>
\* WeightedAliasIndex::new(weights): the error it returns, or "ok"
WeightedAliasIndexNew(weights) ==
    LET n == Len(weights) IN
    IF n = 0 THEN "NoItem"
    ELSE IF \E k \in 1..n : weights[k] < 0 \/ weights[k] > WMax \div n
         THEN "InvalidWeight"
    ELSE IF SumSeq(weights) = 0 THEN "AllWeightsZero"
    ELSE "ok"

\* the columns of positive weight, in increasing order (0-based)
RECURSIVE PositiveColumns(_, _)
PositiveColumns(weights, j) ==
    IF j >= Len(weights) THEN <<>>
    ELSE IF At(weights, j) > 0
         THEN <<j>> \o PositiveColumns(weights, j + 1)
         ELSE PositiveColumns(weights, j + 1)

\* AliasSample picking among all columns, whatever their weight
AliasSample_AnyColumn(table, draw) == draw % Len(table)

\* WeightedAliasIndex::sample: a column of positive weight, picked by the draw
AliasSample(table, draw) ==
    LET cols == PositiveColumns(table, 0) IN
    cols[(draw % Len(cols)) + 1]

\* ------------------------------------------------------- construction
NoChain == [op |-> "none"]

\* new_raw without the assertion on the dimensions
new_raw_NoDimensionCheck(index, matrix, tables, space, r) ==
    LET state_space_len_true ==
            SumSeq([k \in 1..Len(space) |->
                      Cardinality({m \in 1..Len(space) : eq(space[k], space[m])})])
    IN
    IF state_space_len_true # Len(space) THEN [pc |-> "panicked"]
    ELSE [pc |-> "constructed", state_index |-> index,
          transition_matrix |-> matrix,
          transition_matrix_variables |-> tables,
          state_space |-> space, rng |-> r]

\* FiniteMarkovChain::new_raw: the two assert_eq!
new_raw(index, matrix, tables, space, r) ==
    LET state_space_len_true ==
            SumSeq([k \in 1..Len(space) |->
                      Cardinality({m \in 1..Len(space) : eq(space[k], space[m])})])
    IN
    IF state_space_len_true # Len(space) THEN [pc |-> "panicked"]
    ELSE IF Len(matrix) # Len(space) THEN [pc |-> "panicked"]
    ELSE [pc |-> "constructed", state_index |-> index,
          transition_matrix |-> matrix,
          transition_matrix_variables |-> tables,
          state_space |-> space, rng |-> r]

\* new without the unwrap of the alias tables
new_NoUnwrap(index, matrix, space, r) ==
    new_raw(index, matrix, matrix, space, r)

\* FiniteMarkovChain::new: unwrap of every row's alias table, then new_raw
new(index, matrix, space, r) ==
    IF \E k \in 1..Len(matrix) : WeightedAliasIndexNew(matrix[k]) # "ok"
    THEN [pc |-> "panicked"]
    ELSE new_raw(index, matrix, matrix, space, r)

\* installs the outcome of a constructor
Construct(made, ctor) ==
    IF made.pc = "constructed"
    THEN /\ pc' = "constructed"
         /\ state_index' = made.state_index
         /\ transition_matrix' = made.transition_matrix
         /\ transition_matrix_variables' = made.transition_matrix_variables
         /\ state_space' = made.state_space
         /\ rng' = made.rng
         /\ ret' = [op |-> ctor, kind |-> "ok"]
         /\ UNCHANGED args
    ELSE /\ pc' = "panicked"
         /\ ret' = [op |-> ctor, kind |-> "panic"]
         /\ UNCHANGED <<args, state_index, transition_matrix,
                        transition_matrix_variables, state_space, rng>>

IsRectangular(matrix) ==
    \A k, m \in 1..Len(matrix) : Len(matrix[k]) = Len(matrix[m])

\* FiniteMarkovChain::new(state_index, transition_matrix, state_space, rng)
New ==
    /\ pc = "init"
    /\ args.ctor = "new"
    /\ Construct(new(args.state_index, args.transition_matrix,
                     args.state_space, args.rng), "new")

\* From<(usize, Vec<Vec<W>>, R)>
FromVec ==
    /\ pc = "init"
    /\ args.ctor = "from_vec"
    /\ Construct(new(args.state_index, args.transition_matrix,
                     RangeVec(Len(args.transition_matrix)), args.rng),
                 "from_vec")

\* From<(usize, ndarray::Array2<W>, Vec<T>, R)>
FromArray2Space ==
    /\ pc = "init"
    /\ args.ctor = "from_array2_space"
    /\ Construct(new(args.state_index, args.transition_matrix,
                     args.state_space, args.rng), "from_array2_space")

\* From<(usize, ndarray::Array2<W>, R)>
FromArray2 ==
    /\ pc = "init"
    /\ args.ctor = "from_array2"
    /\ Construct(new(args.state_index, args.transition_matrix,
                     RangeVec(Len(args.transition_matrix)), args.rng),
                 "from_array2")

\* ------------------------------------------------------------ stepping
\* State::state(): &self.state_space[self.state_index]
fmc_state(index, space) ==
    IF index >= Len(space) THEN [kind |-> "panic"]
    ELSE [kind |-> "Some", val |-> At(space, index)]

\* FiniteMarkovChain::sample_index
sample_index(index, tables, r) ==
    IF index >= Len(tables) THEN [kind |-> "panic"]
    ELSE [kind |-> "index", val |-> AliasSample(At(tables, index), Head(r))]

\* the fields of a process that its operations change
Self == [state |-> state, state_index |-> state_index, rng |-> rng]

\* the outcome of a next() that has no draw left to take
Starved == [kind |-> "starved"]

\* Iterator::next: self.state_index = self.sample_index(); self.state().cloned()
FiniteMarkovChain_next(me) ==
    IF me.state_index < Len(transition_matrix_variables) /\ me.rng = <<>>
    THEN Starved
    ELSE
    LET s == sample_index(me.state_index, transition_matrix_variables, me.rng)
    IN
    IF s.kind = "panic"
    THEN [kind |-> "panic", state |-> me.state,
          state_index |-> me.state_index, rng |-> me.rng]
    ELSE LET st == fmc_state(s.val, state_space) IN
         IF st.kind = "panic"
         THEN [kind |-> "panic", state |-> me.state,
               state_index |-> s.val, rng |-> Tail(me.rng)]
         ELSE [kind |-> "Some", item |-> st.val, state |-> me.state,
               state_index |-> s.val, rng |-> Tail(me.rng)]

\* Iterator::next called on the chain
Next_ ==
    /\ pc = "constructed"
    /\ LET n == FiniteMarkovChain_next(Self) IN
       /\ n.kind # "starved"
       /\ state_index' = n.state_index
       /\ rng' = n.rng
       /\ pc' = IF n.kind = "panic" THEN "panicked" ELSE pc
       /\ ret' = IF n.kind = "panic"
                 THEN [op |-> "next", kind |-> "panic"]
                 ELSE [op |-> "next", kind |-> "Some", val |-> n.item]
    /\ UNCHANGED <<args, transition_matrix, transition_matrix_variables,
                   state_space>>

\* State::set_state(new_state)
SetState(new_state) ==
    /\ pc = "constructed"
    /\ LET found == Position(state_space, new_state) IN
       IF found >= 0
       THEN /\ state_index' = found
            /\ LET old == fmc_state(state_index, state_space) IN
               IF old.kind = "panic"
               THEN /\ pc' = "panicked"
                    /\ ret' = [op |-> "set_state", kind |-> "panic",
                               arg |-> new_state]
               ELSE /\ pc' = pc
                    /\ ret' = [op |-> "set_state", kind |-> "Ok",
                               arg |-> new_state, val |-> old.val]
       ELSE /\ ret' = [op |-> "set_state", kind |-> "Err",
                       arg |-> new_state, val |-> new_state]
            /\ UNCHANGED <<pc, state_index>>
    /\ UNCHANGED <<args, transition_matrix, transition_matrix_variables,
                   state_space, rng>>

\* sample_index that also moves the chain, as next does
SampleIndex_Stepping ==
    /\ pc = "constructed"
    /\ state_index < Len(transition_matrix_variables) => rng # <<>>
    /\ LET s == sample_index(state_index, transition_matrix_variables, rng) IN
       IF s.kind = "panic"
       THEN /\ pc' = "panicked"
            /\ ret' = [op |-> "sample_index", kind |-> "panic"]
            /\ UNCHANGED <<rng, state_index>>
       ELSE /\ pc' = pc
            /\ ret' = [op |-> "sample_index", kind |-> "index", val |-> s.val]
            /\ rng' = Tail(rng)
            /\ state_index' = s.val
    /\ UNCHANGED <<args, transition_matrix,
                   transition_matrix_variables, state_space>>

\* sample_index() called on the chain: the state stays, the source moves
SampleIndex ==
    /\ pc = "constructed"
    /\ state_index < Len(transition_matrix_variables) => rng # <<>>
    /\ LET s == sample_index(state_index, transition_matrix_variables, rng) IN
       IF s.kind = "panic"
       THEN /\ pc' = "panicked"
            /\ ret' = [op |-> "sample_index", kind |-> "panic"]
            /\ UNCHANGED rng
       ELSE /\ pc' = pc
            /\ ret' = [op |-> "sample_index", kind |-> "index", val |-> s.val]
            /\ rng' = Tail(rng)
    /\ UNCHANGED <<args, state_index, transition_matrix,
                   transition_matrix_variables, state_space>>

\* set_state_space(self, new_state_space): new_raw over the fields of self
SetStateSpace(new_state_space) ==
    /\ pc = "constructed"
    /\ LET made == new_raw(state_index, transition_matrix,
                           transition_matrix_variables, new_state_space, rng)
       IN
       IF made.pc = "constructed"
       THEN /\ pc' = "constructed"
            /\ state_space' = made.state_space
            /\ ret' = [op |-> "set_state_space", kind |-> "ok",
                       len |-> Len(new_state_space)]
       ELSE /\ pc' = "panicked"
            /\ ret' = [op |-> "set_state_space", kind |-> "panic",
                       len |-> Len(new_state_space)]
            /\ UNCHANGED state_space
    /\ UNCHANGED <<args, state_index, transition_matrix,
                   transition_matrix_variables, rng>>

\* ------------------------------------------------------------ analysis
\* absorbing_states_indexes looking at the self-weight only
absorbing_states_indexes_SelfOnly(matrix, space) ==
    SelectSeq(RangeVec(Len(space)),
              LAMBDA i : Len(At(matrix, i)) > i /\ At(At(matrix, i), i) > 0)

\* FiniteMarkovChain::absorbing_states_indexes
absorbing_states_indexes(matrix, space) ==
    LET quantities_check(i) ==
            \A j \in 0..(Len(At(matrix, i)) - 1) :
                IF j = i THEN At(At(matrix, i), j) > 0
                ELSE At(At(matrix, i), j) = 0
        existence_check(i) == Len(At(matrix, i)) > i
    IN SelectSeq(RangeVec(Len(space)),
                 LAMBDA i : quantities_check(i) /\ existence_check(i))

\* FiniteMarkovChain::absorbing_states
absorbing_states(matrix, space) ==
    LET idx == absorbing_states_indexes(matrix, space) IN
    [k \in 1..Len(idx) |-> At(space, idx[k])]

\* the add_edge calls of a loop that also adds the edges of weight zero
RECURSIVE RowEdges_ZeroToo(_, _, _, _)
RowEdges_ZeroToo(matrix, n, i, j) ==
    IF j >= Len(At(matrix, i)) THEN <<>>
    ELSE IF At(At(matrix, i), j) >= 0
         THEN IF j >= n THEN "panic"
              ELSE LET rest == RowEdges_ZeroToo(matrix, n, i, j + 1) IN
                   IF rest = "panic" THEN "panic"
                   ELSE <<<<i, j, At(At(matrix, i), j)>>>> \o rest
         ELSE RowEdges_ZeroToo(matrix, n, i, j + 1)

\* the add_edge calls of row i from column j on, in order; "panic" when a
\* positive weight sits in a column that has no vertex
RECURSIVE RowEdges(_, _, _, _)
RowEdges(matrix, n, i, j) ==
    IF j >= Len(At(matrix, i)) THEN <<>>
    ELSE IF At(At(matrix, i), j) > 0
         THEN IF j >= n THEN "panic"
              ELSE LET rest == RowEdges(matrix, n, i, j + 1) IN
                   IF rest = "panic" THEN "panic"
                   ELSE <<<<i, j, At(At(matrix, i), j)>>>> \o rest
         ELSE RowEdges(matrix, n, i, j + 1)

RECURSIVE AllEdges(_, _, _)
AllEdges(matrix, n, i) ==
    IF i >= n THEN <<>>
    ELSE LET row == RowEdges(matrix, n, i, 0) IN
         IF row = "panic" THEN "panic"
         ELSE LET rest == AllEdges(matrix, n, i + 1) IN
              IF rest = "panic" THEN "panic" ELSE row \o rest

\* Into<(DiGraph<T, W>, NodeIndex)>: node weights, edge list, current node
into(index, matrix, space) ==
    LET edges == AllEdges(matrix, Len(space), 0) IN
    IF edges = "panic" THEN [kind |-> "panic"]
    ELSE [kind |-> "graph", nodes |-> space, edges |-> edges, node |-> index]

\* neighbors following the edges backwards
RECURSIVE neighbors_Incoming(_, _)
neighbors_Incoming(edges, a) ==
    IF edges = <<>> THEN <<>>
    ELSE LET rest == neighbors_Incoming(Tail(edges), a) IN
         IF Head(edges)[2] = a THEN rest \o <<Head(edges)[1]>> ELSE rest

\* graph.neighbors(a): targets of the edges leaving a, latest edge first
RECURSIVE neighbors(_, _)
neighbors(edges, a) ==
    IF edges = <<>> THEN <<>>
    ELSE LET rest == neighbors(Tail(edges), a) IN
         IF Head(edges)[1] = a THEN rest \o <<Head(edges)[2]>> ELSE rest

\* BfsNew that marks the start node but does not queue it
BfsNew_StartNotQueued(graph, start) ==
    IF start >= Len(graph.nodes) THEN [kind |-> "panic"]
    ELSE [kind |-> "bfs", stack |-> neighbors(graph.edges, start),
          discovered |-> {start}]

\* petgraph::visit::Bfs::new: marks the start node in a map of node_count bits
BfsNew(graph, start) ==
    IF start >= Len(graph.nodes) THEN [kind |-> "panic"]
    ELSE [kind |-> "bfs", stack |-> <<start>>, discovered |-> {start}]

\* the successors Bfs::next pushes: each undiscovered neighbour once
RECURSIVE BfsPush(_, _, _)
BfsPush(succs, stack, discovered) ==
    IF succs = <<>> THEN [stack |-> stack, discovered |-> discovered]
    ELSE IF Head(succs) \in discovered
         THEN BfsPush(Tail(succs), stack, discovered)
         ELSE BfsPush(Tail(succs), Append(stack, Head(succs)),
                      discovered \cup {Head(succs)})

\* the while-let loop of may_achieve_index / may_absorb over bfs.next(&graph):
\* TRUE as soon as a visited node is in hits, FALSE when the queue runs dry
RECURSIVE BfsLoop(_, _, _, _)
BfsLoop(graph, stack, discovered, hits) ==
    IF stack = <<>> THEN FALSE
    ELSE LET other_node == Head(stack)
             pushed == BfsPush(neighbors(graph.edges, other_node),
                               Tail(stack), discovered)
         IN IF other_node \in hits THEN TRUE
            ELSE BfsLoop(graph, pushed.stack, pushed.discovered, hits)

\* the traversal shared by may_achieve_index and may_absorb
BfsQuery(index, matrix, space, hits) ==
    LET graph == into(index, matrix, space) IN
    IF graph.kind = "panic" THEN [kind |-> "panic"]
    ELSE LET bfs == BfsNew(graph, graph.node) IN
         IF bfs.kind = "panic" THEN [kind |-> "panic"]
         ELSE [kind |-> "bool",
               val |-> BfsLoop(graph, bfs.stack, bfs.discovered, hits)]

\* FiniteMarkovChain::may_achieve_index
may_achieve_index(index, matrix, space, query) ==
    BfsQuery(index, matrix, space, {query})

\* may_absorb that only looks at the current node
may_absorb_NoTraversal(index, matrix, space) ==
    LET idx == absorbing_states_indexes(matrix, space) IN
    IF index >= Len(space) THEN [kind |-> "panic"]
    ELSE [kind |-> "bool", val |-> \E k \in 1..Len(idx) : idx[k] = index]

\* FiniteMarkovChain::may_absorb
may_absorb(index, matrix, space) ==
    LET idx == absorbing_states_indexes(matrix, space) IN
    BfsQuery(index, matrix, space, {idx[k] : k \in 1..Len(idx)})

\* a query that reads the chain and returns, or panics
Query(name, arg, result) ==
    /\ pc = "constructed"
    /\ IF result.kind = "panic"
       THEN /\ pc' = "panicked"
            /\ ret' = [op |-> name, kind |-> "panic", arg |-> arg]
       ELSE /\ pc' = pc
            /\ ret' = [op |-> name, kind |-> result.kind, arg |-> arg,
                       val |-> result.val]
    /\ UNCHANGED <<args, state_index, transition_matrix,
                   transition_matrix_variables, state_space, rng>>

AbsorbingStatesIndexes ==
    Query("absorbing_states_indexes", 0,
          [kind |-> "vec",
           val |-> absorbing_states_indexes(transition_matrix, state_space)])

AbsorbingStates ==
    Query("absorbing_states", 0,
          [kind |-> "vec",
           val |-> absorbing_states(transition_matrix, state_space)])

MayAchieveIndex(query) ==
    Query("may_achieve_index", query,
          may_achieve_index(state_index, transition_matrix, state_space, query))

MayAbsorb ==
    Query("may_absorb", 0,
          may_absorb(state_index, transition_matrix, state_space))

\* FiniteMarkovChain::may_achieve(query)
MayAchieve(query) ==
    LET found == Position(state_space, query) IN
    Query("may_achieve", query,
          IF found >= 0
          THEN LET b == may_achieve_index(state_index, transition_matrix,
                                          state_space, found)
               IN IF b.kind = "panic" THEN b
                  ELSE [kind |-> "Ok", val |-> b.val]
          ELSE [kind |-> "Err", val |-> query])

\* ----------------------------------------------------------- the system
\* no process besides the finite chain
NoProcess ==
    /\ kind = "FiniteMarkovChain"
    /\ state = 0
    /\ transition = <<>>
    /\ base_distribution = <<>>
    /\ exp = 0
    /\ transiton_clock = <<>>
    /\ first = [a |-> "NoView", iter |-> <<>>]
    /\ origin = [state |-> 0, state_index |-> 0, rng |-> <<>>]
    /\ out = <<>>
    /\ call = "idle"
    /\ count = 0
    /\ acc = 0
    /\ sample_rng = <<>>
    /\ iter = <<>>
    /\ debug_assertions = TRUE
    /\ NoExtras

\* no finite chain
NoFinite ==
    /\ args = [ctor |-> "none"]
    /\ state_index = 0
    /\ transition_matrix = <<>>
    /\ transition_matrix_variables = <<>>
    /\ state_space = <<>>

NoFields ==
    /\ pc = "init"
    /\ state_index = 0
    /\ transition_matrix = <<>>
    /\ transition_matrix_variables = <<>>
    /\ state_space = <<>>
    /\ rng = <<>>
    /\ ret = NoChain

\* the first n labels, in order
LabelVec(n) == [k \in 1..n |-> Label(k)]

\* the tables of n rows that are <<1>> but for one row of any shape
OneOddRow(n) ==
    {[k \in 1..n |-> IF k = j THEN w ELSE <<1>>] :
        j \in 1..n, w \in SeqsUpTo(Weights, MaxCols)}

\* the tables handed to the constructors: every table of fewer than MaxRows
\* rows, and the tables of MaxRows rows with one odd row
NewTables ==
    SeqsUpTo(SeqsUpTo(Weights, MaxCols), MaxRows - 1) \cup OneOddRow(MaxRows)

\* Construction inputs of every shape: rows that are empty, negative, too
\* heavy or all zero, alone or beside a row that is fit, state spaces that
\* are too short, too long or repeat a value, and the four constructors.
InitNew ==
    /\ NoFields
    /\ NoProcess
    /\ \E c \in {"new", "from_vec", "from_array2_space", "from_array2"},
          i \in 0..1,
          m \in NewTables,
          s \in SeqsUpTo({Label(1), Label(2)}, MaxRows) :
          /\ c \in {"from_vec", "from_array2"} => s = <<>>
          /\ c \in {"from_array2_space", "from_array2"} => IsRectangular(m)
          /\ args = [ctor |-> c, state_index |-> i, transition_matrix |-> m,
                     state_space |-> s, rng |-> <<>>]

Constructors ==
    \/ New
    \/ FromVec
    \/ FromArray2Space
    \/ FromArray2

NextNew == Constructors /\ UNCHANGED <<procvars, rawvars, extvars>>

SpecNew == InitNew /\ [][NextNew]_vars

\* the rows of weights 0 and 1 that WeightedAliasIndex::new accepts
ValidRows ==
    {w \in SeqsUpTo({0, 1}, MaxCols) : WeightedAliasIndexNew(w) = "ok"}

\* Chains as callers build them with new for stepping and analysis: rows of
\* weights 0 and 1 that new accepts, of any length up to MaxCols, any start
\* index up to MaxRows, as many distinct labels as rows, any randomness
\* source.
Init ==
    /\ NoFields
    /\ NoProcess
    /\ \E i \in 0..MaxRows,
          m \in SeqsUpTo(ValidRows, MaxRows),
          r \in SeqsOfLen(Draws, RngLen) :
          args = [ctor |-> "new", state_index |-> i, transition_matrix |-> m,
                  state_space |-> LabelVec(Len(m)), rng |-> r]

\* the operations that change the chain
Step ==
    \/ New
    \/ Next_
    \/ \E v \in Labels : SetState(v)

Next == Step /\ UNCHANGED <<procvars, rawvars, extvars>>

Spec == Init /\ [][Next]_vars

\* The chains of Init for the analysis, which takes no draw: the randomness
\* source is left out.
InitAnalysis ==
    /\ NoFields
    /\ NoProcess
    /\ \E i \in 0..MaxRows,
          m \in SeqsUpTo(ValidRows, MaxRows) :
          args = [ctor |-> "new", state_index |-> i, transition_matrix |-> m,
                  state_space |-> LabelVec(Len(m)), rng |-> <<>>]

\* construction and the moves of the current state that take no draw
Moves ==
    \/ New
    \/ \E v \in Labels : SetState(v)

\* the absorbing-state queries
Absorbing ==
    \/ AbsorbingStatesIndexes
    \/ AbsorbingStates

\* the reachability queries
Reach ==
    \/ \E q \in 0..(MaxRows + 1) : MayAchieveIndex(q)
    \/ MayAbsorb

\* the queries on a chain that set_state moves
NextAnalysis == (Moves \/ Absorbing \/ Reach) /\ UNCHANGED <<procvars, rawvars, extvars>>

SpecAnalysis == InitAnalysis /\ [][NextAnalysis]_vars

\* Chains of one more row, started at any index, for the reachability
\* queries alone.
InitReach ==
    /\ NoFields
    /\ NoProcess
    /\ \E i \in 0..(MaxRows + 1),
          m \in SeqsUpTo(ValidRows, MaxRows + 1) :
          args = [ctor |-> "new", state_index |-> i, transition_matrix |-> m,
                  state_space |-> LabelVec(Len(m)), rng |-> <<>>]

NextReach == (New \/ Reach) /\ UNCHANGED <<procvars, rawvars, extvars>>

SpecReach == InitReach /\ [][NextReach]_vars

\* the values of a state space: two labels and a value unequal to itself
SpaceValues == {NaN, Label(1), Label(2)}

\* the table of n rows whose first row leads to index 1 and whose other
\* rows lead to index 0
Hop(n) == [k \in 1..n |-> IF k = 1 THEN <<0, 1>> ELSE <<1>>]

\* the state spaces handed to new and to set_state_space: every vector of up
\* to MaxRows values, and the longer ones in non-decreasing order
Spaces ==
    SeqsUpTo(SpaceValues, MaxRows)
    \cup {s \in SeqsUpTo(SpaceValues, MaxSpace) :
             \A k \in 1..(Len(s) - 1) : s[k] <= s[k + 1]}

\* Chains of up to MaxSpace rows built by new with a state space of any
\* length, with or without repeated values.
InitSpace ==
    /\ NoFields
    /\ NoProcess
    /\ \E i \in 0..1,
          n \in 0..MaxSpace,
          s \in Spaces,
          r \in SeqsOfLen(Draws, RngLen) :
          args = [ctor |-> "new", state_index |-> i,
                  transition_matrix |-> Hop(n), state_space |-> s, rng |-> r]

\* every operation of the chain that the state space bears on
SpaceStep ==
    \/ New
    \/ Next_
    \/ SampleIndex
    \/ \E v \in SpaceValues : SetState(v)
    \/ \E s \in Spaces : SetStateSpace(s)
    \/ Reach
    \/ \E v \in SpaceValues : MayAchieve(v)

NextSpace == SpaceStep /\ UNCHANGED <<procvars, rawvars, extvars>>

SpecSpace == InitSpace /\ [][NextSpace]_vars

\* ------------------------------------------------- branching processes
\* BranchingProcess (branching_process.rs) and Branching
\* (processes/branching.rs) differ in the loop of next() only.
BranchingKinds == {"BranchingProcess", "Branching"}

\* base_distribution.sample(rng): the offspring count the draw selects
Offspring(dist, draw) == At(dist, draw % Len(dist))

\* the condition of the while loop: next() of Branching tests
\* count <= self.state; next() of BranchingProcess and both sample()
\* functions test count < self.state
LoopCond ==
    IF kind = "Branching" /\ call = "loop"
    THEN count <= state
    ELSE count < state

\* the loop body: only Branching has count = count + T::one()
CountAfterTurn ==
    IF kind = "BranchingProcess" THEN count ELSE count + 1

\* next() with the count started at zero
BrCall_CountFromZero ==
    /\ pc = "constructed"
    /\ call = "idle"
    /\ call' = "loop"
    /\ count' = 0
    /\ acc' = 0
    /\ origin' = Self
    /\ UNCHANGED <<fmcvars, kind, state, transition, base_distribution, exp,
                   transiton_clock, first, out, sample_rng>>

\* next(): let count = T::one(); let mut acc = T::zero();
BrCall ==
    /\ pc = "constructed"
    /\ call = "idle"
    /\ call' = "loop"
    /\ count' = 1
    /\ acc' = 0
    /\ origin' = Self
    /\ UNCHANGED <<fmcvars, kind, state, transition, base_distribution, exp,
                   transiton_clock, first, out, sample_rng>>

\* next(): one turn of the while loop, drawing from self.rng
BrLoop ==
    /\ call = "loop"
    /\ LoopCond
    /\ rng # <<>>
    /\ acc' = acc + Offspring(base_distribution, Head(rng))
    /\ rng' = Tail(rng)
    /\ count' = CountAfterTurn
    /\ UNCHANGED <<pc, args, state_index, transition_matrix,
                   transition_matrix_variables, state_space, ret>>
    /\ UNCHANGED <<kind, state, transition, base_distribution, exp,
                   transiton_clock, first, origin, out, call, sample_rng>>

\* next(): self.state = acc.clone(); Some(acc)
BrReturn ==
    /\ call = "loop"
    /\ ~LoopCond
    /\ state' = acc
    /\ ret' = [op |-> "next", kind |-> "Some", val |-> acc]
    /\ call' = "idle"
    /\ UNCHANGED <<pc, args, state_index, transition_matrix,
                   transition_matrix_variables, state_space, rng>>
    /\ UNCHANGED <<kind, transition, base_distribution, exp, transiton_clock,
                   first, origin, out, count, acc, sample_rng>>

\* Distribution::sample(&self, rng): the caller hands in the source r
BrSampleCall(r) ==
    /\ pc = "constructed"
    /\ call = "idle"
    /\ call' = "sample"
    /\ count' = 1
    /\ acc' = 0
    /\ sample_rng' = r
    /\ UNCHANGED <<fmcvars, kind, state, transition, base_distribution, exp,
                   transiton_clock, first, origin, out>>

\* sample(): one turn of the while loop, drawing from the argument
BrSampleLoop ==
    /\ call = "sample"
    /\ LoopCond
    /\ sample_rng # <<>>
    /\ acc' = acc + Offspring(base_distribution, Head(sample_rng))
    /\ sample_rng' = Tail(sample_rng)
    /\ count' = CountAfterTurn
    /\ UNCHANGED <<fmcvars, kind, state, transition, base_distribution, exp,
                   transiton_clock, first, origin, out, call>>

\* sample(): acc; the locals and the borrowed source go out of scope
BrSampleReturn ==
    /\ call = "sample"
    /\ ~LoopCond
    /\ ret' = [op |-> "sample", kind |-> "value", val |-> acc]
    /\ call' = "idle"
    /\ count' = 0
    /\ acc' = 0
    /\ sample_rng' = <<>>
    /\ UNCHANGED <<pc, args, state_index, transition_matrix,
                   transition_matrix_variables, state_space, rng>>
    /\ UNCHANGED <<kind, state, transition, base_distribution, exp,
                   transiton_clock, first, origin, out>>

\* State::set_state of a branching process: mem::swap, Ok(Some(old))
BrSetState(new_state) ==
    /\ pc = "constructed"
    /\ call = "idle"
    /\ state' = new_state
    /\ ret' = [op |-> "set_state", kind |-> "Ok", arg |-> new_state,
               val |-> state]
    /\ UNCHANGED <<pc, args, state_index, transition_matrix,
                   transition_matrix_variables, state_space, rng>>
    /\ UNCHANGED <<kind, transition, base_distribution, exp, transiton_clock,
                   first, origin, out, call, count, acc,
                   sample_rng>>

\* a branching process after new(state, base_distribution, rng)
InitBranching ==
    /\ pc = "constructed"
    /\ NoFinite
    /\ ret = NoChain
    /\ kind \in BranchingKinds
    /\ state \in 0..MaxState
    /\ base_distribution \in SeqsOfLen(0..MaxOffspring, NumDraws)
    /\ rng \in SeqsOfLen(Draws, ProcRngLen)
    /\ transition = <<>>
    /\ exp = 0
    /\ transiton_clock = <<>>
    /\ first = [a |-> "NoView", iter |-> <<>>]
    /\ origin = [state |-> 0, state_index |-> 0, rng |-> <<>>]
    /\ out = <<>>
    /\ call = "idle"
    /\ count = 0
    /\ acc = 0
    /\ sample_rng = <<>>
    /\ iter = <<>>
    /\ debug_assertions = TRUE
    /\ NoExtras

\* the calls on a branching process, turn by turn
BrStep ==
    \/ BrCall
    \/ BrLoop
    \/ BrReturn
    \/ \E r \in SeqsOfLen(Draws, RngLen) : BrSampleCall(r)
    \/ BrSampleLoop
    \/ BrSampleReturn
    \/ \E v \in 0..MaxState : BrSetState(v)

NextBranching == BrStep /\ UNCHANGED <<rawvars, extvars>>

SpecBranching == InitBranching /\ [][NextBranching]_vars

\* ------------------------------------------------------- other processes
\* a duration: <<e, rate>> stands for e / rate
ZeroTime == <<0, 1>>

\* Exp::new(lambda).sample(rng): a positive duration picked by the draw
ExpSample(lambda, draw) == <<draw + 1, lambda>>

\* Transition::sample_from(&state, rng) of a transition function given as a
\* table: row state, column draw
sample_from(table, st, draw) == At(At(table, st), draw % Len(At(table, st)))

\* the default of the State trait: fn state(&self) { None }
State_state_Default(me) == [kind |-> "None"]

\* State::state of MarkovChain, TimedMarkovChain, Poisson and Branching:
\* Some(&self.state)
State_state(me) == [kind |-> "Some", val |-> me.state]

\* the outcome of a next() that ends in self.state().cloned().map(f), where
\* item is f of the state, and me the process as the call leaves it
Stepped(me, item) ==
    IF State_state(me).kind = "Some"
    THEN [kind |-> "Some", item |-> item, state |-> me.state,
          state_index |-> me.state_index, rng |-> me.rng]
    ELSE [kind |-> "None", state |-> me.state,
          state_index |-> me.state_index, rng |-> me.rng]

\* next of MarkovChain returning the sample without storing it
MarkovChain_next_NotStored(me) ==
    IF me.rng = <<>> THEN Starved
    ELSE LET s == sample_from(transition, me.state, Head(me.rng))
             after == [me EXCEPT !.rng = Tail(me.rng)]
         IN Stepped(after, s)

\* MarkovChain, Iterator::next
MarkovChain_next(me) ==
    IF me.rng = <<>> THEN Starved
    ELSE LET s == sample_from(transition, me.state, Head(me.rng))
             after == [me EXCEPT !.state = s, !.rng = Tail(me.rng)]
         IN Stepped(after, State_state(after).val)

\* TimedMarkovChain, Iterator::next
TimedMarkovChain_next(me) ==
    IF me.rng = <<>> THEN Starved
    ELSE LET s == sample_from(transition, me.state, Head(me.rng))
             after == [me EXCEPT !.state = s[2], !.rng = Tail(me.rng)]
         IN Stepped(after, <<s[1], State_state(after).val>>)

\* alias_method::WeightedIndex::new(weights), the alias table under its
\* earlier name: the error it returns, or "ok"
WeightedIndexNew(weights) == WeightedAliasIndexNew(weights)

\* alias_method::WeightedIndex::sample: a column of positive weight, picked
\* by the draw
WeightedIndexSample(weights, draw) ==
    LET cols == PositiveColumns(weights, 0) IN
    cols[(draw % Len(cols)) + 1]

\* ContFiniteMarkovChain::new
ContFiniteMarkovChain_new(index, weights, space, r) ==
    IF \E k \in 1..Len(weights) : WeightedIndexNew(weights[k]) # "ok"
    THEN [pc |-> "panicked"]
    ELSE [pc |-> "constructed", state_index |-> index,
          transition_matrix |-> weights,
          transiton_clock |-> [k \in 1..Len(weights) |-> SumSeq(weights[k])],
          state_space |-> space, rng |-> r]

\* ContFiniteMarkovChain, Iterator::next: sample_index(), sample_clock(),
\* state()
ContFiniteMarkovChain_next(me) ==
    IF me.state_index >= Len(transition_matrix)
    THEN [kind |-> "panic", state |-> me.state,
          state_index |-> me.state_index, rng |-> me.rng]
    ELSE IF me.rng = <<>> THEN Starved
    ELSE
    LET i == WeightedIndexSample(At(transition_matrix, me.state_index),
                                 Head(me.rng))
        r1 == Tail(me.rng)
    IN
    IF i >= Len(transiton_clock)
    THEN [kind |-> "panic", state |-> me.state, state_index |-> i, rng |-> r1]
    ELSE IF r1 = <<>> THEN Starved
    ELSE
    LET period == ExpSample(At(transiton_clock, i), Head(r1))
        st == fmc_state(i, state_space)
    IN
    IF st.kind = "panic"
    THEN [kind |-> "panic", state |-> me.state, state_index |-> i,
          rng |-> Tail(r1)]
    ELSE [kind |-> "Some", item |-> <<period, st.val>>, state |-> me.state,
          state_index |-> i, rng |-> Tail(r1)]

\* ContFiniteMarkovChain, Distribution::sample(&self, rng) with the source r
\* of the caller: the new index, then the step with the rate of
\* self.state_index
ContFiniteMarkovChain_sample(me, r) ==
    IF me.state_index >= Len(transition_matrix)
    THEN [kind |-> "panic", rng |-> r]
    ELSE IF r = <<>> THEN Starved
    ELSE
    LET new_index == WeightedIndexSample(At(transition_matrix, me.state_index),
                                         Head(r))
        rate == At(transiton_clock, me.state_index)
        r1 == Tail(r)
    IN
    IF r1 = <<>> THEN Starved
    ELSE
    LET step == ExpSample(rate, Head(r1))
        st == fmc_state(new_index, state_space)
    IN
    IF st.kind = "panic" THEN [kind |-> "panic", rng |-> Tail(r1)]
    ELSE [kind |-> "value", item |-> <<step, st.val>>, rng |-> Tail(r1)]

\* next of Poisson returning the state it left
Poisson_next_StateLeft(me) ==
    IF me.rng = <<>> THEN Starved
    ELSE LET period == ExpSample(exp, Head(me.rng))
             after == [me EXCEPT !.state = me.state + 1, !.rng = Tail(me.rng)]
         IN Stepped(after, <<period, State_state(me).val>>)

\* Poisson, Iterator::next
Poisson_next(me) ==
    IF me.rng = <<>> THEN Starved
    ELSE LET period == ExpSample(exp, Head(me.rng))
             after == [me EXCEPT !.state = me.state + 1, !.rng = Tail(me.rng)]
         IN Stepped(after, <<period, State_state(after).val>>)

\* Branching, Iterator::next: the while loop from (count, acc)
RECURSIVE Branching_while(_, _, _)
Branching_while(cnt, sum, me) ==
    IF cnt <= me.state
    THEN IF me.rng = <<>> THEN Starved
         ELSE Branching_while(cnt + 1,
                              sum + Offspring(base_distribution, Head(me.rng)),
                              [me EXCEPT !.rng = Tail(me.rng)])
    ELSE [kind |-> "Some", item |-> sum, state |-> sum,
          state_index |-> me.state_index, rng |-> me.rng]

\* Branching, Iterator::next
Branching_next(me) == Branching_while(1, 0, me)

\* BranchingProcess, Iterator::next: the loop while count < self.state
\* leaves count at one, so from a state above one the call never returns,
\* and from zero or one it returns zero without a draw
BranchingProcess_next(me) ==
    IF 1 < me.state THEN Starved
    ELSE [kind |-> "Some", item |-> 0, state |-> 0,
          state_index |-> me.state_index, rng |-> me.rng]

\* Iterator::next of the process at hand
next(me) ==
    CASE kind = "MarkovChain" -> MarkovChain_next(me)
      [] kind = "TimedMarkovChain" -> TimedMarkovChain_next(me)
      [] kind = "FiniteMarkovChain" -> FiniteMarkovChain_next(me)
      [] kind = "ContFiniteMarkovChain" -> ContFiniteMarkovChain_next(me)
      [] kind = "Poisson" -> Poisson_next(me)
      [] kind = "Branching" -> Branching_next(me)
      [] kind = "BranchingProcess" -> BranchingProcess_next(me)

\* ---------------------------------------------------------- trajectory
\* MarkovChain, StateIterator::state_as_item: self.state().cloned()
MarkovChain_state_as_item(me) == [kind |-> "Some", val |-> me.state]

\* TimedMarkovChain: self.state().cloned().map(|state| (N::from(0.0), state))
TimedMarkovChain_state_as_item(me) ==
    [kind |-> "Some", val |-> <<ZeroTime, me.state>>]

\* FiniteMarkovChain: self.state().cloned()
FiniteMarkovChain_state_as_item(me) == fmc_state(me.state_index, state_space)

\* ContFiniteMarkovChain: self.state().cloned().map(|x| (W::from(0.0), x))
ContFiniteMarkovChain_state_as_item(me) ==
    LET st == fmc_state(me.state_index, state_space) IN
    IF st.kind = "panic" THEN st
    ELSE [kind |-> "Some", val |-> <<ZeroTime, st.val>>]

\* Poisson: self.state().cloned().map(|state| (N::zero(), state))
Poisson_state_as_item(me) == [kind |-> "Some", val |-> <<ZeroTime, me.state>>]

\* Branching: self.state().cloned()
Branching_state_as_item(me) == [kind |-> "Some", val |-> me.state]

\* state_as_item answering with the item of one step
state_as_item_Stepped(me) ==
    LET n == next(me) IN
    IF n.kind = "Some" THEN [kind |-> "Some", val |-> n.item]
    ELSE [kind |-> "panic"]

\* StateIterator::state_as_item of the process at hand
state_as_item(me) ==
    CASE kind = "MarkovChain" -> MarkovChain_state_as_item(me)
      [] kind = "TimedMarkovChain" -> TimedMarkovChain_state_as_item(me)
      [] kind = "FiniteMarkovChain" -> FiniteMarkovChain_state_as_item(me)
      [] kind = "ContFiniteMarkovChain"
           -> ContFiniteMarkovChain_state_as_item(me)
      [] kind = "Poisson" -> Poisson_state_as_item(me)
      [] kind = "Branching" -> Branching_state_as_item(me)

\* Iterator::next called on a process that no trajectory has taken
IterNext ==
    /\ pc = "constructed"
    /\ first.a = "NoView"
    /\ LET n == next(Self) IN
       /\ n.kind # "starved"
       /\ state' = n.state
       /\ state_index' = n.state_index
       /\ rng' = n.rng
       /\ pc' = IF n.kind = "panic" THEN "panicked" ELSE pc
       /\ ret' = IF n.kind = "Some"
                 THEN [op |-> "next", kind |-> "Some", val |-> n.item]
                 ELSE [op |-> "next", kind |-> n.kind]
    /\ UNCHANGED <<args, transition_matrix, transition_matrix_variables,
                   state_space>>
    /\ UNCHANGED <<kind, transition, base_distribution, exp, transiton_clock,
                   first, origin, out, call, count, acc,
                   sample_rng>>

\* set_state with the body of the default of the State trait:
\* Err(InvalidState::new(new_state))
ProcSetState_Default(new_state) ==
    /\ pc = "constructed"
    /\ first.a = "NoView"
    /\ ret' = [op |-> "set_state", kind |-> "Err", arg |-> new_state,
               val |-> new_state]
    /\ UNCHANGED <<pc, args, state_index, transition_matrix,
                   transition_matrix_variables, state_space, rng>>
    /\ UNCHANGED procvars

\* State::set_state called on a process that no trajectory has taken:
\* mem::swap and Ok(Some(old)); the finite chain looks the value up
ProcSetState(new_state) ==
    /\ pc = "constructed"
    /\ first.a = "NoView"
    /\ kind \in {"MarkovChain", "TimedMarkovChain", "Poisson", "Branching",
                "BranchingProcess"}
    /\ state' = new_state
    /\ ret' = [op |-> "set_state", kind |-> "Ok", arg |-> new_state,
               val |-> state]
    /\ UNCHANGED <<pc, args, state_index, transition_matrix,
                   transition_matrix_variables, state_space, rng>>
    /\ UNCHANGED <<kind, transition, base_distribution, exp, transiton_clock,
                   first, origin, out, call, count, acc, sample_rng>>

\* StateIterator::trajectory: self.state_as_item().into_iter().chain(self)
Trajectory ==
    /\ pc = "constructed"
    /\ first.a = "NoView"
    /\ LET it == state_as_item(Self) IN
       IF it.kind = "panic"
       THEN /\ pc' = "panicked"
            /\ ret' = [op |-> "trajectory", kind |-> "panic"]
            /\ UNCHANGED <<first, origin, out>>
       ELSE /\ first' = [a |-> "Some", iter |-> <<it.val>>]
            /\ origin' = Self
            /\ out' = <<>>
            /\ ret' = [op |-> "trajectory", kind |-> "ok"]
            /\ pc' = pc
    /\ UNCHANGED <<args, state_index, transition_matrix,
                   transition_matrix_variables, state_space, rng>>
    /\ UNCHANGED <<kind, state, transition, base_distribution, exp,
                   transiton_clock, call, count, acc,
                   sample_rng>>

\* Chain::next on the trajectory: the front half while it has an item, the
\* process itself afterwards
ChainNext ==
    /\ pc = "constructed"
    /\ first.a # "NoView"
    /\ Len(out) < MaxItems
    /\ IF first.a = "Some" /\ first.iter # <<>>
       THEN /\ out' = Append(out, Head(first.iter))
            /\ first' = [a |-> "Some", iter |-> Tail(first.iter)]
            /\ ret' = [op |-> "chain_next", kind |-> "Some",
                       val |-> Head(first.iter)]
            /\ UNCHANGED <<pc, state, state_index, rng>>
       ELSE LET n == next(Self) IN
            /\ n.kind # "starved"
            /\ first' = [a |-> "None", iter |-> <<>>]
            /\ state' = n.state
            /\ state_index' = n.state_index
            /\ rng' = n.rng
            /\ pc' = IF n.kind = "panic" THEN "panicked" ELSE pc
            /\ out' = IF n.kind = "Some" THEN Append(out, n.item) ELSE out
            /\ ret' = IF n.kind = "Some"
                      THEN [op |-> "chain_next", kind |-> "Some",
                            val |-> n.item]
                      ELSE [op |-> "chain_next", kind |-> n.kind]
    /\ UNCHANGED <<args, transition_matrix, transition_matrix_variables,
                   state_space>>
    /\ UNCHANGED <<kind, transition, base_distribution, exp, transiton_clock,
                   origin, call, count, acc,
                   sample_rng>>

\* ContFiniteMarkovChain::new(state_index, transition_weights, state_space, rng)
ContNew ==
    /\ pc = "init"
    /\ args.ctor = "ContFiniteMarkovChain::new"
    /\ LET made == ContFiniteMarkovChain_new(args.state_index,
                       args.transition_matrix, args.state_space, args.rng)
       IN
       IF made.pc = "constructed"
       THEN /\ pc' = "constructed"
            /\ state_index' = made.state_index
            /\ transition_matrix' = made.transition_matrix
            /\ transiton_clock' = made.transiton_clock
            /\ state_space' = made.state_space
            /\ rng' = made.rng
            /\ ret' = [op |-> "ContFiniteMarkovChain::new", kind |-> "ok"]
       ELSE /\ pc' = "panicked"
            /\ ret' = [op |-> "ContFiniteMarkovChain::new", kind |-> "panic"]
            /\ UNCHANGED <<state_index, transition_matrix, transiton_clock,
                           state_space, rng>>
    /\ UNCHANGED <<args, transition_matrix_variables>>
    /\ UNCHANGED <<kind, state, transition, base_distribution, exp, first,
                   origin, out, call, count, acc,
                   sample_rng>>

\* the transition functions of a walk on 0..MaxChainState, as tables: the
\* draw picks the jump, the same from every state
ChainTables ==
    {[s \in 1..(MaxChainState + 1) |->
         [d \in 1..NumDraws |-> (s - 1 + jump[d]) % (MaxChainState + 1)]] :
     jump \in SeqsOfLen(0..MaxChainState, NumDraws)}

\* the timed transition function that moves as table t does and takes the
\* time the draw picks
TimedTable(t) ==
    [s \in 1..Len(t) |-> [d \in 1..Len(t[s]) |-> <<<<d, 1>>, t[s][d]>>]]

\* no trajectory taken, no next() running
NoView ==
    /\ first = [a |-> "NoView", iter |-> <<>>]
    /\ origin = [state |-> 0, state_index |-> 0, rng |-> <<>>]
    /\ out = <<>>
    /\ call = "idle"
    /\ count = 0
    /\ acc = 0
    /\ sample_rng = <<>>
    /\ iter = <<>>
    /\ debug_assertions = TRUE
    /\ NoExtras

\* A process of each type: the chains driven by a transition function, a
\* Branching and a Poisson process as their new() leaves them, the two
\* finite chains before their new().
InitTrajectory ==
    /\ NoView
    /\ ret = NoChain
    /\ \/ /\ kind \in {"MarkovChain", "TimedMarkovChain"}
          /\ pc = "constructed"
          /\ NoFinite
          /\ state \in 0..MaxChainState
          /\ \E t \in ChainTables :
                transition = IF kind = "MarkovChain" THEN t ELSE TimedTable(t)
          /\ rng \in SeqsOfLen(Draws, ProcRngLen)
          /\ base_distribution = <<>>
          /\ exp = 0
          /\ transiton_clock = <<>>
       \/ /\ kind \in {"FiniteMarkovChain", "ContFiniteMarkovChain"}
          /\ pc = "init"
          /\ \E i \in 0..MaxRows,
                m \in SeqsUpTo(ValidRows, MaxRows),
                r \in SeqsOfLen(Draws, ProcRngLen) :
                args = [ctor |-> IF kind = "FiniteMarkovChain" THEN "new"
                                 ELSE "ContFiniteMarkovChain::new",
                        state_index |-> i, transition_matrix |-> m,
                        state_space |-> LabelVec(Len(m)), rng |-> r]
          /\ state_index = 0
          /\ transition_matrix = <<>>
          /\ transition_matrix_variables = <<>>
          /\ state_space = <<>>
          /\ rng = <<>>
          /\ state = 0
          /\ transition = <<>>
          /\ base_distribution = <<>>
          /\ exp = 0
          /\ transiton_clock = <<>>
       \/ /\ kind = "Branching"
          /\ pc = "constructed"
          /\ NoFinite
          /\ state \in 0..MaxState
          /\ base_distribution \in SeqsOfLen(0..MaxOffspring, NumDraws)
          /\ rng \in SeqsOfLen(Draws, ProcRngLen)
          /\ transition = <<>>
          /\ exp = 0
          /\ transiton_clock = <<>>
       \/ /\ kind = "Poisson"
          /\ pc = "constructed"
          /\ NoFinite
          /\ state = 0
          /\ exp \in 1..MaxLambda
          /\ rng \in SeqsOfLen(Draws, ProcRngLen)
          /\ transition = <<>>
          /\ base_distribution = <<>>
          /\ transiton_clock = <<>>

\* construction, stepping and the trajectory view of a process
ViewStep ==
    \/ New /\ UNCHANGED procvars
    \/ ContNew
    \/ IterNext
    \/ Trajectory
    \/ ChainNext

NextTrajectory == ViewStep /\ UNCHANGED <<rawvars, extvars>>

SpecTrajectory == InitTrajectory /\ [][NextTrajectory]_vars

\* A process of each type that steps in discrete or continuous time, for
\* next and set_state in any order: the chains driven by a transition
\* function, the branching processes and a Poisson process as their new()
\* leaves them, a finite chain before its new().
InitStep ==
    /\ NoView
    /\ ret = NoChain
    /\ \/ /\ kind \in {"MarkovChain", "TimedMarkovChain"}
          /\ pc = "constructed"
          /\ NoFinite
          /\ state \in 0..MaxChainState
          /\ \E t \in ChainTables :
                transition = IF kind = "MarkovChain" THEN t ELSE TimedTable(t)
          /\ rng \in SeqsOfLen(Draws, ProcRngLen)
          /\ base_distribution = <<>>
          /\ exp = 0
          /\ transiton_clock = <<>>
       \/ /\ kind = "FiniteMarkovChain"
          /\ pc = "init"
          /\ \E i \in 0..1,
                m \in SeqsUpTo({<<1>>, <<1, 1>>}, MaxRows),
                r \in SeqsOfLen(Draws, ProcRngLen) :
                args = [ctor |-> "new", state_index |-> i,
                        transition_matrix |-> m,
                        state_space |-> LabelVec(Len(m)), rng |-> r]
          /\ state_index = 0
          /\ transition_matrix = <<>>
          /\ transition_matrix_variables = <<>>
          /\ state_space = <<>>
          /\ rng = <<>>
          /\ state = 0
          /\ transition = <<>>
          /\ base_distribution = <<>>
          /\ exp = 0
          /\ transiton_clock = <<>>
       \/ /\ kind \in BranchingKinds
          /\ pc = "constructed"
          /\ NoFinite
          /\ state \in 0..MaxState
          /\ base_distribution \in SeqsOfLen(0..MaxOffspring, NumDraws)
          /\ rng \in SeqsOfLen(Draws, ProcRngLen)
          /\ transition = <<>>
          /\ exp = 0
          /\ transiton_clock = <<>>
       \/ /\ kind = "Poisson"
          /\ pc = "constructed"
          /\ NoFinite
          /\ state = 0
          /\ exp \in 1..MaxLambda
          /\ rng \in SeqsOfLen(Draws, ProcRngLen)
          /\ transition = <<>>
          /\ base_distribution = <<>>
          /\ transiton_clock = <<>>

\* construction, next and set_state of a process
StepOps ==
    \/ New /\ UNCHANGED procvars
    \/ IterNext
    \/ \E v \in 0..MaxChainState : ProcSetState(v)
    \/ /\ kind = "FiniteMarkovChain"
       /\ \E v \in Labels : SetState(v)
       /\ UNCHANGED procvars

NextStep == StepOps /\ UNCHANGED <<rawvars, extvars>>

SpecStep == InitStep /\ [][NextStep]_vars

\* ------------------------------------------------- the Raw distribution
\* rng.gen::<f64>(): a uniform value of [0, 1), in units of 1/Grain
Units == 0..(Grain - 1)

\* probabilities in units of 1/Grain: negative, zero, positive, one
Probs == {0 - 1, 0, 1, Grain}

\* the pair sequences a Raw is built from
RawIters == SeqsUpTo(Probs \X (0..MaxChainState), MaxPairs)

\* debug_assert!(cond): checked only in a build with debug assertions
debug_assert(cond) == debug_assertions => cond

\* if acc >= cum_goal
Reached_Strictly(a, cum_goal) == a > cum_goal

Reached(a, cum_goal) == a >= cum_goal

\* the panic! after the for loop, k pairs consumed
Exhausted_None(k) == [kind |-> "None", scanned |-> k]

Exhausted(k) == [kind |-> "panic", why |-> "exhausted", scanned |-> k]

\* Raw::sample, the for loop: k pairs consumed, running sum a
RECURSIVE Raw_scan(_, _, _, _)
Raw_scan(it, k, a, cum_goal) ==
    IF k = Len(it) THEN Exhausted(k)
    ELSE
    LET prob == it[k + 1][1]
        st == it[k + 1][2]
    IN
    IF ~debug_assert(0 <= prob)
    THEN [kind |-> "panic", why |-> "negative", scanned |-> k + 1]
    ELSE IF ~debug_assert(Grain >= a)
    THEN [kind |-> "panic", why |-> "more than one", scanned |-> k + 1]
    ELSE IF Reached(a + prob, cum_goal)
    THEN [kind |-> "value", val |-> st, scanned |-> k + 1]
    ELSE Raw_scan(it, k + 1, a + prob, cum_goal)

\* Raw::sample with the uniform draw cum_goal
Raw_sample(it, cum_goal) == Raw_scan(it, 0, 0, cum_goal)

\* Raw::sample(&self, rng) called on the distribution itself
RawSample ==
    /\ kind = "Raw"
    /\ pc = "constructed"
    /\ sample_rng # <<>>
    /\ LET r == Raw_sample(iter, Head(sample_rng)) IN
       /\ ret' = [op |-> "sample", cum_goal |-> Head(sample_rng), res |-> r]
       /\ pc' = IF r.kind = "panic" THEN "panicked" ELSE pc
    /\ sample_rng' = Tail(sample_rng)
    /\ UNCHANGED <<args, state_index, transition_matrix,
                   transition_matrix_variables, state_space, rng>>
    /\ UNCHANGED <<kind, state, transition, base_distribution, exp,
                   transiton_clock, first, origin, out, call, count, acc>>
    /\ UNCHANGED <<rawvars, extvars>>

\* a transition function |state| Raw::new(vec![(p, state + j), ...]), as a
\* table: the values of the pairs are jumps from the current state
ShiftTable(it) ==
    [s \in 1..(MaxChainState + 1) |->
        [k \in 1..Len(it) |->
            <<it[k][1], (s - 1 + it[k][2]) % (MaxChainState + 1)>>]]

\* MarkovChain over Raw distributions, Iterator::next
RawChainNext ==
    /\ kind = "MarkovChain"
    /\ pc = "constructed"
    /\ rng # <<>>
    /\ LET r == Raw_sample(At(transition, state), Head(rng)) IN
       /\ ret' = [op |-> "next", cum_goal |-> Head(rng), from |-> state,
                  res |-> r]
       /\ pc' = IF r.kind = "panic" THEN "panicked" ELSE pc
       /\ state' = IF r.kind = "value" THEN r.val ELSE state
    /\ rng' = Tail(rng)
    /\ UNCHANGED <<args, state_index, transition_matrix,
                   transition_matrix_variables, state_space>>
    /\ UNCHANGED <<kind, transition, base_distribution, exp, transiton_clock,
                   first, origin, out, call, count, acc, sample_rng>>
    /\ UNCHANGED <<rawvars, extvars>>

\* MarkovChain, State::set_state: mem::swap, Ok(Some(old))
RawChainSetState(new_state) ==
    /\ kind = "MarkovChain"
    /\ pc = "constructed"
    /\ state' = new_state
    /\ ret' = [op |-> "set_state", arg |-> new_state, val |-> state]
    /\ UNCHANGED <<pc, args, state_index, transition_matrix,
                   transition_matrix_variables, state_space, rng>>
    /\ UNCHANGED <<kind, transition, base_distribution, exp, transiton_clock,
                   first, origin, out, call, count, acc, sample_rng>>
    /\ UNCHANGED <<rawvars, extvars>>

\* a Raw distribution with the source handed to sample, or a MarkovChain
\* whose transition yields Raw distributions, in a debug or a release build
InitRaw ==
    /\ pc = "constructed"
    /\ NoFinite
    /\ ret = NoChain
    /\ debug_assertions \in BOOLEAN
    /\ NoExtras
    /\ \E it \in RawIters :
          \/ /\ kind = "Raw"
             /\ iter = it
             /\ transition = <<>>
             /\ state = 0
             /\ rng = <<>>
             /\ sample_rng \in SeqsOfLen(Units, RngLen)
          \/ /\ kind = "MarkovChain"
             /\ iter = <<>>
             /\ transition = ShiftTable(it)
             /\ state \in 0..MaxChainState
             /\ rng \in SeqsOfLen(Units, RngLen)
             /\ sample_rng = <<>>
    /\ base_distribution = <<>>
    /\ exp = 0
    /\ transiton_clock = <<>>
    /\ first = [a |-> "NoView", iter |-> <<>>]
    /\ origin = [state |-> 0, state_index |-> 0, rng |-> <<>>]
    /\ out = <<>>
    /\ call = "idle"
    /\ count = 0
    /\ acc = 0

NextRaw ==
    \/ RawSample
    \/ RawChainNext
    \/ \E v \in 0..MaxChainState : RawChainSetState(v)

SpecRaw == InitRaw /\ [][NextRaw]_vars

\* ------------------------------------------ the generating function
\* probabilities of a density, in tenths
Tenths == {3, 4}

\* the densities handed to discrete_time::Branching::new: a vector of pairs
\* (state, probability), or the endless iterator (0..).map(|i| (i, prob))
Densities ==
    {[a |-> "vec", pairs |-> v, prob |-> 0] :
        v \in SeqsUpTo((0..MaxDegree) \X Tenths, MaxTerms)}
    \cup {[a |-> "endless", pairs |-> <<>>, prob |-> p] : p \in Tenths \cup {5}}

\* z.powf(f64::from(state)) for a whole z: any z to the power 0 is 1
RECURSIVE powf(_, _)
powf(z, n) == IF n = 0 THEN 1 ELSE z * powf(z, n - 1)

\* density.next() once k items were taken
density_next_FromOne(d, k) ==
    IF d.a = "endless" THEN [kind |-> "Some", val |-> <<k + 1, d.prob>>]
    ELSE IF k < Len(d.pairs) THEN [kind |-> "Some", val |-> At(d.pairs, k)]
    ELSE [kind |-> "None"]

density_next(d, k) ==
    IF d.a = "endless" THEN [kind |-> "Some", val |-> <<k, d.prob>>]
    ELSE IF k < Len(d.pairs) THEN [kind |-> "Some", val |-> At(d.pairs, k)]
    ELSE [kind |-> "None"]

\* the turns of for _ in 0..approx_level from turn k on: a pair adds its
\* term, the end of the density breaks the loop
RECURSIVE approx_loop_Inclusive(_, _, _, _, _)
approx_loop_Inclusive(d, z, approx_level, k, result) ==
    IF k > approx_level THEN [val |-> result, taken |-> k]
    ELSE LET item == density_next(d, k)
         IN IF item.kind = "None" THEN [val |-> result, taken |-> k]
            ELSE approx_loop_Inclusive(d, z, approx_level, k + 1,
                     result + powf(z, item.val[1]) * item.val[2])

RECURSIVE approx_loop(_, _, _, _, _)
approx_loop(d, z, approx_level, k, result) ==
    IF k >= approx_level THEN [val |-> result, taken |-> k]
    ELSE LET item == density_next(d, k)
         IN IF item.kind = "None" THEN [val |-> result, taken |-> k]
            ELSE approx_loop(d, z, approx_level, k + 1,
                     result + powf(z, item.val[1]) * item.val[2])

\* the result, in tenths, and the number of pairs taken from the density
approx_generating_fun(d, z, approx_level) ==
    approx_loop(d, z, approx_level, 0, 0)

ApproxGeneratingFun(z, approx_level) ==
    /\ kind = "discrete_time::Branching"
    /\ LET r == approx_generating_fun(density, z, approx_level)
       IN ret' = [op |-> "approx_generating_fun", z |-> z,
                  approx_level |-> approx_level,
                  val |-> r.val, taken |-> r.taken]
    /\ UNCHANGED <<pc, args, state_index, transition_matrix,
                   transition_matrix_variables, state_space, rng>>
    /\ UNCHANGED <<procvars, rawvars, extvars>>

\* a discrete_time::Branching after new(state, density)
InitGenFun ==
    /\ pc = "constructed"
    /\ NoFinite
    /\ rng = <<>>
    /\ ret = NoChain
    /\ kind = "discrete_time::Branching"
    /\ state \in 0..1
    /\ transition = <<>>
    /\ base_distribution = <<>>
    /\ exp = 0
    /\ transiton_clock = <<>>
    /\ first = [a |-> "NoView", iter |-> <<>>]
    /\ origin = [state |-> 0, state_index |-> 0, rng |-> <<>>]
    /\ out = <<>>
    /\ call = "idle"
    /\ count = 0
    /\ acc = 0
    /\ sample_rng = <<>>
    /\ iter = <<>>
    /\ debug_assertions = TRUE
    /\ density \in Densities
    /\ distr = NoDistr
    /\ twin = NoTwin
    /\ thread_rng = <<>>
    /\ uses_thread_rng = FALSE
    /\ items = [self |-> <<>>, twin |-> <<>>, set |-> FALSE]

NextGenFun ==
    \E z \in 0..MaxZ, approx_level \in 0..MaxLevel :
        ApproxGeneratingFun(z, approx_level)

SpecGenFun == InitGenFun /\ [][NextGenFun]_vars

\* ---------------------------------------------------- two instances
\* a second instance of the process, built alike or cloned, stepped beside
\* the first; both read the transition function or the tables, which no
\* operation changes

\* whether the draws of an instance come from the generator of the thread
\* (R is ThreadRng, a handle that every clone of it shares) or from the
\* generator it owns
ThreadLocal_Always == TRUE

ThreadLocal == uses_thread_rng

\* the instance named who, as the fields of a process
Inst(who) ==
    IF who = "self" THEN Self
    ELSE [state |-> twin.state, state_index |-> twin.state_index,
          rng |-> twin.rng]

\* the instance with the draws its source holds
Drawing(me) == [me EXCEPT !.rng = IF ThreadLocal THEN thread_rng ELSE me.rng]

\* #[derive(Clone)]: every field cloned; the clone of a ThreadRng is a
\* handle to the same generator
clone_FreshSource(me) ==
    [a |-> "clone", state |-> me.state, state_index |-> me.state_index,
     rng |-> <<>>]

clone(me) ==
    [a |-> "clone", state |-> me.state, state_index |-> me.state_index,
     rng |-> me.rng]

\* the default of the State trait: Err(InvalidState::new(new_state))
set_state_Default(me, new_state) ==
    [kind |-> "Err", val |-> new_state, me |-> me]

\* State::set_state(new_state) on an instance: the finite chain looks the
\* value up, the other processes swap it in
set_state(me, new_state) ==
    IF kind = "FiniteMarkovChain"
    THEN LET found == Position(state_space, new_state) IN
         IF found >= 0
         THEN LET old == fmc_state(me.state_index, state_space) IN
              IF old.kind = "panic"
              THEN [kind |-> "panic", me |-> [me EXCEPT !.state_index = found]]
              ELSE [kind |-> "Ok", val |-> old.val,
                    me |-> [me EXCEPT !.state_index = found]]
         ELSE [kind |-> "Err", val |-> new_state, me |-> me]
    ELSE [kind |-> "Ok", val |-> me.state,
          me |-> [me EXCEPT !.state = new_state]]

\* the instance named who becomes me
Becomes(who, me) ==
    IF who = "self"
    THEN /\ state' = me.state
         /\ state_index' = me.state_index
         /\ rng' = me.rng
         /\ UNCHANGED twin
    ELSE /\ twin' = [twin EXCEPT !.state = me.state,
                                 !.state_index = me.state_index,
                                 !.rng = me.rng]
         /\ UNCHANGED <<state, state_index, rng>>

\* nothing but the two instances, the generator of the thread and the
\* outcome changes
TwinFrame ==
    /\ UNCHANGED <<args, transition_matrix, transition_matrix_variables,
                   state_space>>
    /\ UNCHANGED <<kind, transition, base_distribution, exp, transiton_clock,
                   first, origin, out, call, count, acc, sample_rng>>
    /\ UNCHANGED <<rawvars, density, distr, uses_thread_rng>>

\* the same constructor called a second time with the same arguments, before
\* the first instance was stepped or set
TwinNew ==
    /\ pc = "constructed"
    /\ twin.a = "none"
    /\ items.self = <<>>
    /\ ~items.set
    /\ twin' = [clone(Self) EXCEPT !.a = "new"]
    /\ ret' = [op |-> "new", who |-> "twin"]
    /\ UNCHANGED <<pc, state, state_index, rng, thread_rng, items>>
    /\ TwinFrame

\* self.clone(), at any moment
Clone ==
    /\ pc = "constructed"
    /\ twin.a = "none"
    /\ twin' = clone(Self)
    /\ items' = [self |-> <<>>, twin |-> <<>>, set |-> FALSE]
    /\ ret' = [op |-> "clone", who |-> "self"]
    /\ UNCHANGED <<pc, state, state_index, rng, thread_rng>>
    /\ TwinFrame

\* Iterator::next called on the instance named who, which has returned
\* fewer than MaxItems items
NextOf(who) ==
    /\ pc = "constructed"
    /\ who = "twin" => twin.a # "none"
    /\ Len(items[who]) < MaxItems
    /\ LET me == Inst(who)
           n == next(Drawing(me))
       IN /\ n.kind # "starved"
          /\ Becomes(who, [state |-> n.state, state_index |-> n.state_index,
                           rng |-> IF ThreadLocal THEN me.rng ELSE n.rng])
          /\ thread_rng' = IF ThreadLocal THEN n.rng ELSE thread_rng
          /\ pc' = IF n.kind = "panic" THEN "panicked" ELSE pc
          /\ items' = IF n.kind = "Some" /\ ~items.set
                      THEN [items EXCEPT ![who] = Append(@, n.item)]
                      ELSE items
          /\ ret' = [op |-> "next", who |-> who, kind |-> n.kind]
    /\ TwinFrame

\* State::set_state(new_state) called on the instance named who
SetStateOf(who, new_state) ==
    /\ pc = "constructed"
    /\ who = "twin" => twin.a # "none"
    /\ LET s == set_state(Inst(who), new_state)
       IN /\ Becomes(who, s.me)
          /\ pc' = IF s.kind = "panic" THEN "panicked" ELSE pc
          /\ ret' = IF s.kind = "panic"
                    THEN [op |-> "set_state", who |-> who, kind |-> s.kind]
                    ELSE [op |-> "set_state", who |-> who, kind |-> s.kind,
                          val |-> s.val]
    /\ items' = [self |-> <<>>, twin |-> <<>>, set |-> TRUE]
    /\ UNCHANGED thread_rng
    /\ TwinFrame

\* the values handed to set_state
StateValues ==
    IF kind = "FiniteMarkovChain" THEN Labels ELSE 0..MaxChainState

\* the transition function of the walk on 0..MaxChainState whose jump is
\* the draw
Walk ==
    [s \in 1..(MaxChainState + 1) |->
        [d \in 1..NumDraws |-> (s - 1 + d - 1) % (MaxChainState + 1)]]

\* the draws of the generator of the thread when no process holds it
ThreadDraws == [k \in 1..ProcRngLen |-> (k - 1) % NumDraws]

\* A process of each type that takes a randomness source, which is a
\* generator of its own or a ThreadRng; the generator of the thread holds
\* draws in either case. The items are kept until the first set_state.
InitTwin ==
    /\ first = [a |-> "NoView", iter |-> <<>>]
    /\ origin = [state |-> 0, state_index |-> 0, rng |-> <<>>]
    /\ out = <<>>
    /\ call = "idle"
    /\ count = 0
    /\ acc = 0
    /\ sample_rng = <<>>
    /\ iter = <<>>
    /\ debug_assertions = TRUE
    /\ density = NoDensity
    /\ distr = NoDistr
    /\ twin = NoTwin
    /\ items = [self |-> <<>>, twin |-> <<>>, set |-> FALSE]
    /\ ret = NoChain
    /\ uses_thread_rng \in BOOLEAN
    /\ \E r \in SeqsOfLen(Draws, ProcRngLen) :
       LET own == IF uses_thread_rng THEN <<>> ELSE r IN
       /\ thread_rng = IF uses_thread_rng THEN r ELSE ThreadDraws
       /\ \/ /\ kind \in {"MarkovChain", "TimedMarkovChain"}
             /\ pc = "constructed"
             /\ NoFinite
             /\ state \in 0..MaxChainState
             /\ transition = IF kind = "MarkovChain" THEN Walk
                             ELSE TimedTable(Walk)
             /\ rng = own
             /\ base_distribution = <<>>
             /\ exp = 0
             /\ transiton_clock = <<>>
          \/ /\ kind = "FiniteMarkovChain"
             /\ pc = "init"
             /\ \E i \in 0..1,
                   m \in SeqsOfLen({<<1>>, <<1, 1>>}, 2) :
                   args = [ctor |-> "new", state_index |-> i,
                           transition_matrix |-> m,
                           state_space |-> LabelVec(Len(m)), rng |-> own]
             /\ state_index = 0
             /\ transition_matrix = <<>>
             /\ transition_matrix_variables = <<>>
             /\ state_space = <<>>
             /\ rng = <<>>
             /\ state = 0
             /\ transition = <<>>
             /\ base_distribution = <<>>
             /\ exp = 0
             /\ transiton_clock = <<>>
          \/ /\ kind = "Branching"
             /\ pc = "constructed"
             /\ NoFinite
             /\ state \in 0..1
             /\ base_distribution \in SeqsOfLen(0..1, NumDraws)
             /\ rng = own
             /\ transition = <<>>
             /\ exp = 0
             /\ transiton_clock = <<>>
          \/ /\ kind = "Poisson"
             /\ pc = "constructed"
             /\ NoFinite
             /\ state = 0
             /\ exp \in 1..MaxLambda
             /\ rng = own
             /\ transition = <<>>
             /\ base_distribution = <<>>
             /\ transiton_clock = <<>>

\* construction, cloning, and next and set_state on either instance
TwinOps ==
    \/ New /\ UNCHANGED <<procvars, rawvars, extvars>>
    \/ TwinNew
    \/ Clone
    \/ \E who \in {"self", "twin"} : NextOf(who)
    \/ \E who \in {"self", "twin"}, v \in StateValues : SetStateOf(who, v)

NextTwin == TwinOps

SpecTwin == InitTwin /\ [][NextTwin]_vars

\* ------------------------------------------------- Unary and Binary
\* the functions handed to Unary::new and to Binary::new
UnaryFuncs == {"minus_one", "double"}

BinaryFuncs == {"minus", "left", "pack"}

func1(f, x) == IF f = "minus_one" THEN x - 1 ELSE 2 * x

func2(f, x, y) ==
    CASE f = "minus" -> x - y
      [] f = "left" -> x
      [] f = "pack" -> 10 * x + y

\* the distributions that are wrapped: one that takes one draw and scales
\* it, alone or under a Unary
Scaled == {[a |-> "Scaled", scale |-> s] : s \in {1, 2}}

Wrapped ==
    Scaled \cup {[a |-> "Unary", func |-> f, distr |-> d] :
                    f \in UnaryFuncs, d \in Scaled}

\* the distributions that are sampled: a Unary or a Binary over the wrapped
Combinators ==
    {[a |-> "Unary", func |-> f, distr |-> d] :
        f \in UnaryFuncs, d \in Wrapped}
    \cup {[a |-> "Binary", func |-> f, distr_1 |-> d1, distr_2 |-> d2] :
             f \in BinaryFuncs, d1 \in Wrapped, d2 \in Wrapped}

\* the draws one sample of d takes
RECURSIVE DrawsOf(_)
DrawsOf(d) ==
    CASE d.a = "Scaled" -> 1
      [] d.a = "Unary" -> DrawsOf(d.distr)
      [] d.a = "Binary" -> DrawsOf(d.distr_1) + DrawsOf(d.distr_2)

RECURSIVE Distribution_sample(_, _)

\* Unary, Distribution::sample: (self.func)(self.distr.sample(rng))
Unary_sample(d, r) ==
    LET x == Distribution_sample(d.distr, r)
    IN [val |-> func1(d.func, x.val), rng |-> x.rng]

\* Binary::sample taking the right sample before the left one
Binary_sample_RightFirst(d, r) ==
    LET y == Distribution_sample(d.distr_2, r)
        x == Distribution_sample(d.distr_1, y.rng)
    IN [val |-> func2(d.func, x.val, y.val), rng |-> x.rng]

\* Binary, Distribution::sample:
\* (self.func)(self.distr_1.sample(rng), self.distr_2.sample(rng)), the
\* arguments evaluated from left to right
Binary_sample(d, r) ==
    LET x == Distribution_sample(d.distr_1, r)
        y == Distribution_sample(d.distr_2, x.rng)
    IN [val |-> func2(d.func, x.val, y.val), rng |-> y.rng]

\* Distribution::sample(rng) of the distribution d
Distribution_sample(d, r) ==
    CASE d.a = "Scaled" -> [val |-> d.scale * Head(r), rng |-> Tail(r)]
      [] d.a = "Unary" -> Unary_sample(d, r)
      [] d.a = "Binary" -> Binary_sample(d, r)

\* distr.sample(&mut rng) called with a source that holds the draws it takes
SampleDistr ==
    /\ kind = "Distribution"
    /\ Len(sample_rng) >= DrawsOf(distr)
    /\ LET s == Distribution_sample(distr, sample_rng)
       IN /\ ret' = [op |-> "sample", val |-> s.val, before |-> sample_rng]
          /\ sample_rng' = s.rng
    /\ UNCHANGED <<pc, args, state_index, transition_matrix,
                   transition_matrix_variables, state_space, rng>>
    /\ UNCHANGED <<kind, state, transition, base_distribution, exp,
                   transiton_clock, first, origin, out, call, count, acc>>
    /\ UNCHANGED <<rawvars, extvars>>

\* a Unary or a Binary after new, and the source handed to sample
InitCombinators ==
    /\ pc = "constructed"
    /\ NoFinite
    /\ rng = <<>>
    /\ ret = NoChain
    /\ kind = "Distribution"
    /\ state = 0
    /\ transition = <<>>
    /\ base_distribution = <<>>
    /\ exp = 0
    /\ transiton_clock = <<>>
    /\ first = [a |-> "NoView", iter |-> <<>>]
    /\ origin = [state |-> 0, state_index |-> 0, rng |-> <<>>]
    /\ out = <<>>
    /\ call = "idle"
    /\ count = 0
    /\ acc = 0
    /\ sample_rng \in SeqsOfLen(Draws, ProcRngLen + 1)
    /\ iter = <<>>
    /\ debug_assertions = TRUE
    /\ density = NoDensity
    /\ distr \in Combinators
    /\ twin = NoTwin
    /\ thread_rng = <<>>
    /\ uses_thread_rng = FALSE
    /\ items = [self |-> <<>>, twin |-> <<>>, set |-> FALSE]

NextCombinators == SampleDistr

SpecCombinators == InitCombinators /\ [][NextCombinators]_vars

\* ------------------------------------------------- conversion to a graph
\* Into<(DiGraph<T, W>, NodeIndex)>::into(self): the chain is moved into the
\* call, no operation follows
Into ==
    /\ pc = "constructed"
    /\ LET graph == into(state_index, transition_matrix, state_space) IN
       IF graph.kind = "panic"
       THEN /\ pc' = "panicked"
            /\ ret' = [op |-> "into", kind |-> "panic"]
       ELSE /\ pc' = "converted"
            /\ ret' = [op |-> "into", kind |-> "graph", nodes |-> graph.nodes,
                       edges |-> graph.edges, node |-> graph.node]
    /\ UNCHANGED <<args, state_index, transition_matrix,
                   transition_matrix_variables, state_space, rng>>

\* rows that WeightedAliasIndex::new accepts, one of them with the largest
\* weight
GraphRows == ValidRows \cup {<<WMax>>}

\* Chains built by each constructor, with labels for the constructors that
\* take a state space, to be moved by set_state and converted.
InitGraph ==
    /\ NoFields
    /\ NoProcess
    /\ \E c \in {"new", "from_vec", "from_array2_space", "from_array2"},
          i \in 0..1,
          m \in SeqsUpTo(GraphRows, MaxRows) :
          /\ c \in {"from_array2_space", "from_array2"} => IsRectangular(m)
          /\ args = [ctor |-> c, state_index |-> i, transition_matrix |-> m,
                     state_space |-> IF c \in {"from_vec", "from_array2"}
                                     THEN <<>> ELSE LabelVec(Len(m)),
                     rng |-> <<>>]

GraphStep ==
    \/ Constructors
    \/ \E v \in Labels \cup (0..MaxRows) : SetState(v)
    \/ Into

NextGraph == GraphStep /\ UNCHANGED <<procvars, rawvars, extvars>>

SpecGraph == InitGraph /\ [][NextGraph]_vars

\* ------------------------------------------ accessors and sampling apart
\* FiniteMarkovChain::state_space
StateSpace == Query("state_space", 0, [kind |-> "vec", val |-> state_space])

\* FiniteMarkovChain::nstates
Nstates == Query("nstates", 0, [kind |-> "usize", val |-> Len(state_space)])

\* Distribution<T>::sample(&self, rng) with the generator r of the caller:
\* one draw of r on the row of the current index, then the value at the
\* index drawn
Sample(r) ==
    /\ pc = "constructed"
    /\ IF state_index >= Len(transition_matrix_variables)
       THEN /\ pc' = "panicked"
            /\ ret' = [op |-> "sample", kind |-> "panic", before |-> r]
            /\ sample_rng' = r
       ELSE LET new_index == AliasSample(At(transition_matrix_variables,
                                            state_index), Head(r))
                value == fmc_state(new_index, state_space)
            IN /\ sample_rng' = Tail(r)
               /\ IF value.kind = "panic"
                  THEN /\ pc' = "panicked"
                       /\ ret' = [op |-> "sample", kind |-> "panic",
                                  before |-> r]
                  ELSE /\ pc' = pc
                       /\ ret' = [op |-> "sample", kind |-> "value",
                                  val |-> value.val, before |-> r]
    /\ UNCHANGED <<args, state_index, transition_matrix,
                   transition_matrix_variables, state_space, rng>>
    /\ UNCHANGED <<kind, state, transition, base_distribution, exp,
                   transiton_clock, first, origin, out, call, count, acc>>
    /\ UNCHANGED <<rawvars, extvars>>

\* Chains as Init builds them with square tables, started at the first two
\* indices, with a source of one draw.
InitFrame ==
    /\ NoFields
    /\ NoProcess
    /\ \E i \in 0..1,
          m \in SeqsUpTo(ValidRows, MaxRows),
          r \in SeqsOfLen(Draws, 1) :
          /\ \A k \in 1..Len(m) : Len(m[k]) = Len(m)
          /\ args = [ctor |-> "new", state_index |-> i,
                     transition_matrix |-> m,
                     state_space |-> LabelVec(Len(m)), rng |-> r]

\* the operations that take the chain by shared reference, and sample_index
Readers ==
    \/ Absorbing
    \/ Reach
    \/ \E v \in Labels : MayAchieve(v)
    \/ StateSpace
    \/ Nstates
    \/ SampleIndex

\* the operations that move the chain
Movers ==
    \/ New
    \/ Next_
    \/ \E v \in Labels : SetState(v)

NextFrame ==
    \/ (Readers \/ Movers) /\ UNCHANGED <<procvars, rawvars, extvars>>
    \/ \E r \in SeqsOfLen(Draws, 1) : Sample(r)

SpecFrame == InitFrame /\ [][NextFrame]_vars

\* ------------------------------------------------- the state by reference
\* State::state_mut(): Some(&mut self.state_space[self.state_index]), and
\* the caller's assignment of new_value through the reference
StateMut(new_value) ==
    /\ pc = "constructed"
    /\ IF state_index >= Len(state_space)
       THEN /\ pc' = "panicked"
            /\ ret' = [op |-> "state_mut", kind |-> "panic",
                       arg |-> new_value]
            /\ UNCHANGED state_space
       ELSE /\ pc' = pc
            /\ ret' = [op |-> "state_mut", kind |-> "Some",
                       arg |-> new_value]
            /\ state_space' = [state_space EXCEPT ![state_index + 1] = new_value]
    /\ UNCHANGED <<args, state_index, transition_matrix,
                   transition_matrix_variables, rng>>

\* the operations that move the chain or write its state, and the lookup
MutStep ==
    \/ Movers
    \/ \E v \in Labels : StateMut(v)
    \/ \E v \in Labels : MayAchieve(v)

NextMut == MutStep /\ UNCHANGED <<procvars, rawvars, extvars>>

\* the chains of InitFrame, whose state spaces hold distinct labels
SpecMut == InitFrame /\ [][NextMut]_vars

\* =================================================================
\* Properties of the finite chain
\* =================================================================
CtorNames == {"new", "from_vec", "from_array2_space", "from_array2"}

\* a constructor returned a chain (which a later operation may have aborted)
Built == pc = "constructed" \/ (pc = "panicked" /\ ret.op \notin CtorNames)

HasSpaceArg == args.ctor \in {"new", "from_array2_space"}

IsMember(v, x) == \E k \in 1..Len(v) : v[k] = x

NoRepeats(v) == \A k, m \in 1..Len(v) : v[k] = v[m] => k = m

\* weight(i, j) of the stored table, 0 where the row has no such column
Weight(i, j) ==
    IF i < Len(transition_matrix) /\ j < Len(At(transition_matrix, i))
    THEN At(At(transition_matrix, i), j) ELSE 0

\* the largest column count of the stored table
Width ==
    IF transition_matrix = <<>> THEN 0
    ELSE CHOOSE w \in {Len(transition_matrix[k]) : k \in 1..Len(transition_matrix)} :
             \A k \in 1..Len(transition_matrix) : Len(transition_matrix[k]) <= w

\* the absorbing indices as the specification defines them
AbsorbingSet ==
    {i \in 0..(Len(state_space) - 1) :
        /\ Weight(i, i) > 0
        /\ \A j \in 0..(Width - 1) : j # i => Weight(i, j) = 0}

\* a path of zero or more positive-weight edges between two states
PathExists(a, b) ==
    LET n == Len(state_space) IN
    \E p \in SeqsUpTo(0..(n - 1), n) :
        /\ Len(p) >= 1
        /\ p[1] = a
        /\ p[Len(p)] = b
        /\ \A k \in 1..(Len(p) - 1) : Weight(p[k], p[k + 1]) > 0

\* the current index and every column of positive weight name a state
IndicesInRange ==
    /\ state_index < Len(state_space)
    /\ \A i \in 0..(Len(transition_matrix) - 1) :
           \A j \in 0..(Width - 1) : Weight(i, j) > 0 => j < Len(state_space)

C2_GuardedAtConstruction ==
    /\ pc = "constructed" => IndicesInRange
    /\ ~(pc = "panicked" /\ ret.op = "next")

\* C2: out-of-bounds indices are guarded by the caller: when the start index
\* and every column of positive weight handed to the constructor name a
\* state, the current index stays inside the state space and neither next
\* nor set_state indexes outside it, after any sequence of such calls.
C2_GuardedByCaller ==
    (/\ Built
     /\ args.state_index < Len(args.state_space)
     /\ \A k \in 1..Len(args.transition_matrix) :
            \A j \in 1..Len(args.transition_matrix[k]) :
                args.transition_matrix[k][j] > 0 => j - 1 < Len(args.state_space))
    => (pc = "constructed" /\ state_index < Len(state_space))

\* two steps were taken from a start index in range and the chain moved
C2_Witness ==
    /\ pc = "constructed"
    /\ IndicesInRange
    /\ ret.op = "next"
    /\ rng = <<>>
    /\ state_index # args.state_index

\* C3: absorbing_states_indexes returns, in increasing order, exactly the
\* indices with a positive self-weight and zero weight to every other
\* column, and absorbing_states returns the state values at those indices.
C3_AbsorbingExactly ==
    /\ (ret.op = "absorbing_states_indexes")
       => /\ \A k \in 1..(Len(ret.val) - 1) : ret.val[k] < ret.val[k + 1]
          /\ {ret.val[k] : k \in 1..Len(ret.val)} = AbsorbingSet
    /\ (ret.op = "absorbing_states")
       => /\ Len(ret.val) = Cardinality(AbsorbingSet)
          /\ \E idx \in SeqsOfLen(0..(Len(state_space) - 1), Len(ret.val)) :
                /\ \A k \in 1..(Len(idx) - 1) : idx[k] < idx[k + 1]
                /\ {idx[k] : k \in 1..Len(idx)} = AbsorbingSet
                /\ \A k \in 1..Len(idx) : ret.val[k] = At(state_space, idx[k])

\* the query reported one absorbing index of a chain that also has an index
\* with a positive self-weight that is not absorbing
C3_Witness ==
    /\ ret.op = "absorbing_states_indexes"
    /\ Len(ret.val) = 1
    /\ \E i \in 0..(Len(state_space) - 1) :
           Weight(i, i) > 0 /\ i \notin AbsorbingSet

\* C4: when may_achieve_index(query) returns, it returns true exactly when a
\* path of zero or more positive-weight edges leads from the current index
\* to query; for a query that is not a state it returns false.
C4_MayAchieveIffPath ==
    (ret.op = "may_achieve_index" /\ ret.kind = "bool")
    => /\ ret.val = PathExists(state_index, ret.arg)
       /\ ret.arg >= Len(state_space) => ret.val = FALSE

\* true was returned for a state reached only through a third state
C4_Witness ==
    /\ ret.op = "may_achieve_index"
    /\ ret.kind = "bool"
    /\ ret.val = TRUE
    /\ ret.arg # state_index
    /\ Weight(state_index, ret.arg) = 0

\* C5: when may_absorb returns, it returns true exactly when some absorbing
\* index is reachable from the current index by positive-weight edges (the
\* current index included), which is the disjunction of may_achieve_index
\* over the absorbing indices.
C5_MayAbsorbIffReachable ==
    (ret.op = "may_absorb" /\ ret.kind = "bool")
    => /\ ret.val = (\E i \in AbsorbingSet : PathExists(state_index, i))
       /\ ret.val = (\E i \in AbsorbingSet :
                        may_achieve_index(state_index, transition_matrix,
                                          state_space, i).val)

\* true was returned while the current index is not absorbing itself
C5_Witness ==
    /\ ret.op = "may_absorb"
    /\ ret.kind = "bool"
    /\ ret.val = TRUE
    /\ state_index \notin AbsorbingSet

\* C6: in every state reached by next and set_state calls,
\* may_achieve_index(current index) is true: it returns true whenever the
\* indices of the chain are in range, and it never returns false.
C6_ReachesItself ==
    pc = "constructed"
    => LET r == may_achieve_index(state_index, transition_matrix,
                                  state_space, state_index)
       IN /\ IndicesInRange => r = [kind |-> "bool", val |-> TRUE]
          /\ r.kind = "bool" => r.val = TRUE
          /\ (ret.op = "may_achieve_index" /\ ret.kind = "bool"
              /\ ret.arg = state_index) => ret.val = TRUE

\* the query returned true for the current index, which has no self-loop
\* and is not the index the chain started at
C6_Witness ==
    /\ pc = "constructed"
    /\ ret.op = "may_achieve_index"
    /\ ret.kind = "bool"
    /\ ret.arg = state_index
    /\ ret.val = TRUE
    /\ Weight(state_index, state_index) = 0
    /\ state_index # args.state_index

\* C7: a set_state(v) that returns, with v in the state space, returns
\* Ok(Some(previous state value)); afterwards the current index is the
\* position of v, state() is v, and table and state space are unchanged.
C7_SetStateValid ==
    [][\A v \in Labels :
          (SetState(v) /\ IsMember(state_space, v) /\ pc' = "constructed")
          => /\ state_index < Len(state_space)
             /\ ret'.kind = "Ok"
             /\ ret'.val = At(state_space, state_index)
             /\ state_index' < Len(state_space')
             /\ At(state_space', state_index') = v
             /\ fmc_state(state_index', state_space') = [kind |-> "Some", val |-> v]
             /\ UNCHANGED <<transition_matrix, transition_matrix_variables,
                            state_space>>]_vars

\* set_state returned a previous state different from the new one
C7_Witness ==
    /\ pc = "constructed"
    /\ ret.op = "set_state"
    /\ ret.kind = "Ok"
    /\ ret.val # ret.arg
    /\ At(state_space, state_index) = ret.arg

\* C8: set_state(v) with v not in the state space returns Err(InvalidState)
\* carrying v and changes nothing of the chain; the chain stays usable: a
\* set_state with a value of the state space that follows and returns,
\* returns Ok.
C8_SetStateInvalid ==
    [][\A v \in Labels :
          /\ (SetState(v) /\ ~IsMember(state_space, v))
             => /\ ret' = [op |-> "set_state", kind |-> "Err",
                           arg |-> v, val |-> v]
                /\ UNCHANGED <<pc, state_index, state_space, transition_matrix,
                               transition_matrix_variables, rng>>
          /\ (ret.op = "set_state" /\ ret.kind = "Err"
              /\ IsMember(state_space, v) /\ state_index < Len(state_space))
             => (ENABLED SetState(v)
                 /\ (SetState(v) => (pc' = "constructed" /\ ret'.kind = "Ok")))]_vars

\* set_state was refused on a chain that has states and a current state
C8_Witness ==
    /\ pc = "constructed"
    /\ ret.op = "set_state"
    /\ ret.kind = "Err"
    /\ ~IsMember(state_space, ret.arg)
    /\ Len(state_space) >= 2
    /\ state_index < Len(state_space)

\* =================================================================
\* Properties of trajectories
\* =================================================================
TimedKinds == {"TimedMarkovChain", "ContFiniteMarkovChain", "Poisson"}

IndexedKinds == {"FiniteMarkovChain", "ContFiniteMarkovChain"}

\* the state a process with fields me holds
HeldState(me) ==
    IF kind \in IndexedKinds THEN At(state_space, me.state_index)
    ELSE me.state

\* the fields of the process after k calls of next() from fields me
RECURSIVE NthNext(_, _)
NthNext(me, k) ==
    IF k = 0 THEN [kind |-> "Some", state |-> me.state,
                   state_index |-> me.state_index, rng |-> me.rng]
    ELSE LET before == NthNext(me, k - 1) IN
         IF before.kind # "Some" THEN before
         ELSE next([state |-> before.state,
                    state_index |-> before.state_index, rng |-> before.rng])

\* C9: the first item of a trajectory is the state held when trajectory()
\* was called (with time zero for the timed processes), the k-th item after
\* it is the item of the k-th next() on that process, and the randomness
\* source has given exactly the draws of those next() calls, none for the
\* first item.
C9_TrajectoryPrependsState ==
    first.a # "NoView"
    => /\ out # <<>>
          => out[1] = IF kind \in TimedKinds
                      THEN <<ZeroTime, HeldState(origin)>>
                      ELSE HeldState(origin)
       /\ \A k \in 2..Len(out) :
             LET n == NthNext(origin, k - 1) IN
             n.kind = "Some" /\ out[k] = n.item
       /\ (pc = "constructed" /\ Len(out) <= 1) => rng = origin.rng
       /\ (pc = "constructed" /\ Len(out) > 1)
          => rng = NthNext(origin, Len(out) - 1).rng

\* a trajectory has yielded the held state and then two steps that differ
C9_Witness ==
    /\ first.a = "None"
    /\ Len(out) >= 3
    /\ out[2] # out[3]
    /\ out[1] # out[2]

\* =================================================================
\* Properties of the branching processes
\* =================================================================
\* the sum of the offspring counts selected by the first n draws of r
RECURSIVE OffspringSum(_, _, _)
OffspringSum(dist, r, n) ==
    IF n = 0 THEN 0
    ELSE At(dist, Head(r) % Len(dist)) + OffspringSum(dist, Tail(r), n - 1)

\* C10: a next() that returns from state n has drawn exactly n samples of
\* the base distribution, has set the state to their sum and returns it
\* (one draw from state 1, no draw and 0 from state 0).
C10_NextSumsOffspring ==
    (call = "idle" /\ ret.op = "next")
    => /\ Len(origin.rng) - Len(rng) = origin.state
       /\ ret.val = OffspringSum(base_distribution, origin.rng, origin.state)
       /\ state = ret.val

\* C11: next and Distribution::sample of a branching process terminate after
\* finitely many offspring draws: every turn of their while loop brings the
\* loop nearer to its end, that is, the distance state - count from the
\* counter to the state, which the loop condition compares, strictly
\* decreases with each offspring draw.
C11_LoopTurnsAdvance ==
    [][(BrLoop \/ BrSampleLoop) => (state' - count') < (state - count)]_vars

\* =================================================================
\* Properties of construction and of set_state_space
\* =================================================================
\* a row that cannot form a categorical distribution: it is empty, some
\* weight is negative or above W::MAX divided by the row length, or the
\* weights sum to zero
RowUnfit(w) ==
    \/ Len(w) = 0
    \/ \E k \in 1..Len(w) : w[k] < 0
    \/ \E k \in 1..Len(w) : w[k] > WMax \div Len(w)
    \/ SumSeq(w) = 0

\* C15: a constructor given a table with some row that cannot form a
\* categorical distribution panics and creates no chain.
C15_UnfitRowFails ==
    (/\ pc # "init"
     /\ \E k \in 1..Len(args.transition_matrix) :
           RowUnfit(args.transition_matrix[k]))
    => /\ pc = "panicked"
       /\ ret.kind = "panic"
       /\ transition_matrix = <<>>
       /\ transition_matrix_variables = <<>>
       /\ state_space = <<>>

\* new has panicked on a table whose first row is fit and whose second row
\* has a weight above W::MAX divided by the row length, with a state space
\* that fits the table
C15_Witness ==
    /\ pc = "panicked"
    /\ args.ctor = "new"
    /\ Len(args.transition_matrix) = 2
    /\ Len(args.state_space) = 2
    /\ NoRepeats(args.state_space)
    /\ ~RowUnfit(args.transition_matrix[1])
    /\ LET w == args.transition_matrix[2] IN
       /\ Len(w) = 2
       /\ \A k \in 1..2 : w[k] >= 0
       /\ \E k \in 1..2 : w[k] > WMax \div 2

\* two entries of v are equal by PartialEq
HasEqualPair(v) == \E k, m \in 1..Len(v) : k # m /\ eq(v[k], v[m])

\* C16: new and set_state_space panic on a state-space vector with two
\* equal values: no chain exists whose state space holds two equal values,
\* so the first index at which a value is found is the only one.
C16_NoEqualStates ==
    pc = "constructed" => ~HasEqualPair(state_space)

CumMass(it, k) == SumSeq([j \in 1..k |-> it[j][1]])

\* the first pair whose cumulative mass reaches u, if there is one
FirstReaching(it, u) ==
    {k \in 1..Len(it) : /\ CumMass(it, k) >= u
                        /\ \A j \in 1..(k - 1) : CumMass(it, j) < u}

\* some pair has a negative probability
HasNegative(it) == \E k \in 1..Len(it) : it[k][1] < 0

\* C12: Raw::sample takes exactly one uniform draw u from the source; when
\* it returns, the value is that of the first pair, in sequence order, whose
\* cumulative mass reaches or exceeds u, and exactly the pairs up to that one
\* have been consumed; in a release build it returns whenever such a pair
\* exists.
C12_FirstPairReachingDraw ==
    [][RawSample =>
        LET u == Head(sample_rng)
            r == ret'.res
        IN
        /\ sample_rng' = Tail(sample_rng)
        /\ ret'.cum_goal = u
        /\ r.kind = "value" =>
              /\ r.scanned \in FirstReaching(iter, u)
              /\ r.val = iter[r.scanned][2]
        /\ (~debug_assertions /\ FirstReaching(iter, u) # {}) =>
              r.kind = "value"]_vars

\* a sample that returned the second pair because the mass of the first,
\* positive, fell short of the draw
C12_Witness ==
    /\ kind = "Raw"
    /\ ret.op = "sample"
    /\ ret.res.kind = "value"
    /\ ret.res.scanned = 2
    /\ iter[1][1] > 0
    /\ iter[2][1] > 0

\* C13: when no prefix of the pair sequence has a cumulative mass reaching the
\* draw u, Raw::sample panics: it yields neither a value nor a None; and
\* next of a MarkovChain whose transition yields such a distribution panics
\* as well, leaving the state where it was, instead of returning None.
C13_ExhaustedPanics ==
    [][/\ (RawSample /\ FirstReaching(iter, Head(sample_rng)) = {}) =>
              /\ ret'.res.kind = "panic"
              /\ pc' = "panicked"
       /\ (RawChainNext
           /\ FirstReaching(At(transition, state), Head(rng)) = {}) =>
              /\ ret'.res.kind = "panic"
              /\ pc' = "panicked"
              /\ state' = state]_vars

\* a MarkovChain whose next scanned every pair of a non-empty distribution
\* without reaching the draw
C13_Witness ==
    /\ kind = "MarkovChain"
    /\ pc = "panicked"
    /\ ret.op = "next"
    /\ ret.res.kind = "panic"
    /\ ret.res.why = "exhausted"
    /\ ret.res.scanned = Len(At(transition, state))
    /\ ret.res.scanned > 0

\* C14: in a debug build, a sample that returns a value has met, among the
\* pairs it scanned, no negative probability and no cumulative sum above
\* one, the term just added included.
C14_DebugScanIsChecked ==
    (/\ kind = "Raw"
     /\ debug_assertions
     /\ ret.op = "sample"
     /\ ret.res.kind = "value")
    => \A k \in 1..ret.res.scanned :
          /\ iter[k][1] >= 0
          /\ CumMass(iter, k) <= Grain

\* =================================================================
\* Properties of stepping
\* =================================================================
\* C18: a next of a MarkovChain, TimedMarkovChain, FiniteMarkovChain,
\* Branching or Poisson process that returns, returns Some(item) and never
\* None, whatever next and set_state calls came before.
C18_NextReturnsSome ==
    (ret.op = "next" /\ ret.kind # "panic") => ret.kind = "Some"

\* a Poisson process whose second next, after a set_state that lowered the
\* count, has returned an item
C18_Witness ==
    /\ kind = "Poisson"
    /\ ret.op = "next"
    /\ ret.kind = "Some"
    /\ rng = <<>>
    /\ state = 1

\* C19: a next of a MarkovChain or TimedMarkovChain leaves in state() the
\* state sampled from the transition at the previous state, which is the
\* item returned, or its state component; of a TimedMarkovChain the time
\* elapsed is in the item alone: the state field takes the state component
\* and the transition is unchanged.
C19_StateIsTheSample ==
    [][(IterNext /\ kind \in {"MarkovChain", "TimedMarkovChain"}) =>
        LET s == sample_from(transition, state, Head(rng)) IN
        /\ ret'.kind = "Some"
        /\ rng' = Tail(rng)
        /\ transition' = transition
        /\ kind = "MarkovChain" =>
              /\ state' = s
              /\ ret'.val = state'
        /\ kind = "TimedMarkovChain" =>
              /\ state' = s[2]
              /\ ret'.val = <<s[1], state'>>]_vars

\* a TimedMarkovChain whose second next moved it to another state
C19_Witness ==
    /\ kind = "TimedMarkovChain"
    /\ ret.op = "next"
    /\ ret.kind = "Some"
    /\ ret.val[2] = state
    /\ ret.val[1] # ZeroTime
    /\ rng = <<>>

\* C20: a next called on a branching process in state 0 draws no offspring,
\* returns Some(0) and leaves the state at 0, whatever the base distribution
\* and whether 0 came from stepping or from set_state.
C20_AbsorbedAtZero ==
    /\ (call = "loop" /\ origin.state = 0)
       => (acc = 0 /\ rng = origin.rng /\ state = 0)
    /\ (call = "idle" /\ ret.op = "next" /\ origin.state = 0)
       => /\ ret.kind = "Some"
          /\ ret.val = 0
          /\ state = 0
          /\ rng = origin.rng

\* a Branching whose base distribution has a positive offspring count and
\* whose next from state 0, after an earlier next that drew offspring, has
\* returned
C20_Witness ==
    /\ kind = "Branching"
    /\ call = "idle"
    /\ ret.op = "next"
    /\ ret.val = 0
    /\ origin.state = 0
    /\ Len(rng) < ProcRngLen
    /\ \E k \in 1..Len(base_distribution) : base_distribution[k] > 0

\* =================================================================
\* Properties of the generating function
\* =================================================================
\* the term z^state * prob of a pair
Term(pair, z) == powf(z, pair[1]) * pair[2]

\* the sum of the terms of the first n pairs of a vector of pairs
FirstTerms(pairs, z, n) == SumSeq([k \in 1..n |-> Term(pairs[k], z)])

\* the sum of z^i * prob over the indices i below n
FirstPowers(prob, z, n) == SumSeq([k \in 1..n |-> powf(z, k - 1) * prob])

Smaller(a, b) == IF a <= b THEN a ELSE b

\* the density {0: 0.3, 1: 0.4, 2: 0.3}
DocDensity == <<<<0, 3>>, <<1, 4>>, <<2, 3>>>>

Evaluated == ret.op = "approx_generating_fun"

OnHalves == density.a = "endless" /\ density.prob = 5

SourceOf(me) == Drawing(me).rng

\* the items the two instances returned agree as far as both have stepped,
\* and after equally many steps, none of which panicked, the two instances
\* are in the same state, sources included
InStep ==
    /\ \A k \in 1..Smaller(Len(items.self), Len(items.twin)) :
          items.self[k] = items.twin[k]
    /\ (pc = "constructed" /\ Len(items.self) = Len(items.twin)) =>
          /\ Inst("twin") = Self
          /\ SourceOf(Inst("twin")) = SourceOf(Self)

TwinActs ==
    \/ NextOf("twin")
    \/ \E v \in StateValues : SetStateOf("twin", v)

\* a next or set_state on the original
SelfActs ==
    \/ NextOf("self")
    \/ \E v \in StateValues : SetStateOf("self", v)

\* a call on one of the two instances leaves the state and the source of
\* the other as they were, and the two return the same items from the
\* moment of cloning until a set_state
Independent ==
    /\ TwinActs => /\ Self' = Self
                   /\ SourceOf(Self)' = SourceOf(Self)
    /\ SelfActs => /\ Inst("twin")' = Inst("twin")
                   /\ SourceOf(Inst("twin"))' = SourceOf(Inst("twin"))
    /\ (twin.a' = "clone" /\ ~items.set') => InStep'

WrappedValue(d, u) ==
    IF d.a = "Scaled" THEN d.scale * u
    ELSE func1(d.func, d.distr.scale * u)

Sampled == ret.op = "sample" /\ kind = "Distribution"

\* C25: Binary::sample takes one draw for its first distribution, then one
\* for its second, from the one source, and returns func of the two samples
\* in that order; Unary::sample takes one draw for its distribution and
\* returns func of the sample.
C25_LeftThenRightOnce ==
    Sampled =>
        /\ distr.a = "Binary" =>
              /\ ret.val = func2(distr.func,
                                 WrappedValue(distr.distr_1, ret.before[1]),
                                 WrappedValue(distr.distr_2, ret.before[2]))
              /\ sample_rng = Tail(Tail(ret.before))
        /\ distr.a = "Unary" =>
              /\ ret.val = func1(distr.func,
                                 WrappedValue(distr.distr, ret.before[1]))
              /\ sample_rng = Tail(ret.before)

\* a Binary whose result tells the order of the draws was sampled on two
\* different draws
C25_Witness ==
    /\ Sampled
    /\ distr.a = "Binary"
    /\ distr.func = "pack"
    /\ distr.distr_1 = distr.distr_2
    /\ ret.before[1] # ret.before[2]


SwapKinds ==
    {"MarkovChain", "TimedMarkovChain", "Branching", "BranchingProcess"}

\* C27: on MarkovChain, TimedMarkovChain and the two branching processes
\* set_state(v) can be called with every value and returns
\* Ok(Some(previous state)); afterwards state() is v, and the transition
\* policy, the base distribution and the randomness source are unchanged.
C27_SetStateAcceptsAll ==
    [][(pc = "constructed" /\ first.a = "NoView" /\ kind \in SwapKinds) =>
          \A v \in 0..MaxChainState :
              /\ ENABLED ProcSetState(v)
              /\ ProcSetState(v) =>
                    /\ ret'.kind = "Ok"
                    /\ ret'.val = state
                    /\ state' = v
                    /\ State_state(Self').val = v
                    /\ transition' = transition
                    /\ base_distribution' = base_distribution
                    /\ rng' = rng]_vars

\* a TimedMarkovChain was set to a state other than the one it was in
C27_Witness ==
    /\ kind = "TimedMarkovChain"
    /\ ret.op = "set_state"
    /\ ret.kind = "Ok"
    /\ ret.val # ret.arg
    /\ state = ret.arg

\* =================================================================
\* Properties of the reachability queries by value
\* =================================================================
\* v equals a value of the state space
Holds(space, v) == \E k \in 1..Len(space) : eq(space[k], v)

\* the index of the first value of the state space that equals v
FirstAt(space, v) ==
    CHOOSE i \in 0..(Len(space) - 1) :
        /\ eq(At(space, i), v)
        /\ \A j \in 0..(i - 1) : ~eq(At(space, j), v)

\* C28: may_achieve(v) that returns gives Err(InvalidState) carrying v when
\* v equals no value of the state space, and otherwise Ok(b) where b is
\* may_achieve_index of the position of v in the state space; the chain is
\* unchanged either way.
C28_MayAchieveByPosition ==
    [][\A v \in SpaceValues :
          (MayAchieve(v) /\ pc' = "constructed") =>
              /\ UNCHANGED <<state_index, transition_matrix,
                             transition_matrix_variables, state_space, rng>>
              /\ ret'.arg = v
              /\ ~Holds(state_space, v) =>
                    /\ ret'.kind = "Err"
                    /\ ret'.val = v
              /\ Holds(state_space, v) =>
                    /\ ret'.kind = "Ok"
                    /\ ret'.val =
                          may_achieve_index(state_index, transition_matrix,
                              state_space, FirstAt(state_space, v)).val]_vars

\* may_achieve answered Ok(false) for a value of the state space that is
\* not its first
C28_Witness ==
    /\ ret.op = "may_achieve"
    /\ ret.kind = "Ok"
    /\ ret.val = FALSE
    /\ Holds(state_space, ret.arg)
    /\ FirstAt(state_space, ret.arg) > 0

\* =================================================================
\* The documented two-state chain
\* =================================================================
\* the chain with rows [[0.5, 0.5], [0.0, 1.0]], in units of one half
DocChain ==
    /\ pc = "constructed"
    /\ transition_matrix = <<<<1, 1>>, <<0, 1>>>>

\* C29: on the chain with rows [[0.5, 0.5], [0.0, 1.0]] the absorbing
\* indices are exactly [1]; at index 0, may_achieve_index(0),
\* may_achieve_index(1) and may_absorb are true; at index 1, where
\* set_state leads, may_achieve_index(0) is false and may_achieve_index(1)
\* is true.
C29_DocChainAnswers ==
    DocChain =>
        /\ ret.op = "absorbing_states_indexes" => ret.val = <<1>>
        /\ (state_index = 0 /\ ret.op = "may_achieve_index"
               /\ ret.arg \in {0, 1}) => ret.val = TRUE
        /\ (state_index = 0 /\ ret.op = "may_absorb") => ret.val = TRUE
        /\ (state_index = 1 /\ ret.op = "may_achieve_index"
               /\ ret.arg = 0) => ret.val = FALSE
        /\ (state_index = 1 /\ ret.op = "may_achieve_index"
               /\ ret.arg = 1) => ret.val = TRUE

\* the chain started at index 0 and moved to index 1 by set_state answered
\* that index 0 cannot be reached
C29_Witness ==
    /\ DocChain
    /\ args.state_index = 0
    /\ state_index = 1
    /\ ret.op = "may_achieve_index"
    /\ ret.arg = 0
    /\ ret.val = FALSE

\* =================================================================
\* Absorbing states under stepping
\* =================================================================
\* the index i is one of absorbing_states_indexes()
InAbsorbingIndexes(i) ==
    LET idx == absorbing_states_indexes(transition_matrix, state_space)
    IN \E k \in 1..Len(idx) : idx[k] = i

C31_PoissonCountsCalls ==
    (kind = "Poisson" /\ twin.a = "none" /\ ~items.set) =>
        /\ State_state(Self).val = Len(items.self)
        /\ \A k \in 1..Len(items.self) : items.self[k][2] = k

\* a fresh Poisson process has stepped as often as its source allows
C31_Witness ==
    /\ kind = "Poisson"
    /\ twin.a = "none"
    /\ ~items.set
    /\ Len(items.self) = ProcRngLen
    /\ state = ProcRngLen


\* =================================================================
\* Conversion of a finite chain into a graph
\* =================================================================
\* the conversion returned a graph
Converted == pc = "converted" /\ ret.op = "into" /\ ret.kind = "graph"

\* the pairs (i, j, weight) of positive weight in the stored table
PositivePairs ==
    {e \in {<<i, j, Weight(i, j)>> : i \in 0..(Len(state_space) - 1),
                                     j \in 0..(Width - 1)} : e[3] > 0}

\* C32: the graph of a finite chain has one node per state, node k weighted
\* with the k-th state value, one edge i->j of weight weight(i, j) for each
\* pair with weight(i, j) > 0 and no other edge, and the current index as
\* node pointer; the chain with rows [[0.5, 0.5], [0.0, 1.0]] at index 0
\* gives 2 nodes, 3 edges and 2 neighbours of the current node; without an
\* explicit state space the node values are the indices in order.
C32_GraphOfChain ==
    Converted =>
        /\ ret.nodes = state_space
        /\ {ret.edges[k] : k \in 1..Len(ret.edges)} = PositivePairs
        /\ NoRepeats(ret.edges)
        /\ ret.node = state_index
        /\ (transition_matrix = <<<<1, 1>>, <<0, 1>>>> /\ state_index = 0) =>
              /\ Len(ret.nodes) = 2
              /\ Len(ret.edges) = 3
              /\ Len(neighbors(ret.edges, ret.node)) = 2
        /\ ~HasSpaceArg => ret.nodes = RangeVec(Len(transition_matrix))

\* a chain built without a state space, with a zero weight and a weight
\* other than one, was moved by set_state to index 1 and converted
C32_Witness ==
    /\ Converted
    /\ ~HasSpaceArg
    /\ transition_matrix = <<<<0, 1>>, <<WMax>>>>
    /\ args.state_index = 0
    /\ state_index = 1
    /\ ret.edges = <<<<0, 1, 1>>, <<1, 0, WMax>>>>


\* =================================================================
\* Operations that leave the chain where it is
\* =================================================================
AnalysisOps ==
    {"absorbing_states", "absorbing_states_indexes", "may_achieve_index",
     "may_achieve", "may_absorb", "state_space", "nstates"}

SamplingOps == {"sample_index", "sample"}

\* C33: absorbing_states, absorbing_states_indexes, may_achieve_index,
\* may_achieve, may_absorb, state_space and nstates leave the current index,
\* the state space, the transition table and the randomness source as they
\* were; sample_index and Distribution::sample leave the current index, the
\* state space and the transition table as they were.
C33_ReadersKeepTheChain ==
    [][/\ ret'.op \in AnalysisOps =>
            UNCHANGED <<state_index, state_space, transition_matrix,
                        transition_matrix_variables, rng>>
       /\ ret'.op \in SamplingOps =>
            UNCHANGED <<state_index, state_space, transition_matrix,
                        transition_matrix_variables>>]_vars

\* sample_index drew an index other than the current one from a chain that
\* set_state had moved, and the chain stayed
C33_Witness ==
    /\ pc = "constructed"
    /\ ret.op = "sample_index"
    /\ ret.kind = "index"
    /\ ret.val # state_index
    /\ state_index # args.state_index
    /\ rng = <<>>


\* =================================================================
\* Sampling a branching process without stepping it
\* =================================================================
\* C34: Distribution::sample of a branching process in state n takes as
\* many offspring draws from the source handed in as next takes from the
\* source of the process, n, and leaves the state as it was.
C34_SampleDrawsAsNext ==
    [][(call = "sample" /\ call' = "idle") =>
          /\ RngLen - Len(sample_rng) = state
          /\ state' = state]_vars


\* =================================================================
\* The state space under every operation
\* =================================================================
\* C35: in every reachable state of a chain, whatever operations were
\* called, state_mut among them, no value is held at two indices of the
\* state space, so the lookup of a value by set_state and may_achieve finds
\* one index only.
C35_StateSpaceStaysUnique ==
    Built => NoRepeats(state_space)


\* =================================================================
\* Values of probability zero
\* =================================================================
\* C36: whatever the draw u in [0, 1), u = 0 included, the value that
\* Raw::sample returns belongs to a pair of strictly positive probability.
C36_NeverAZeroProbabilityValue ==
    (/\ kind = "Raw"
     /\ ret.op = "sample"
     /\ ret.res.kind = "value")
    => iter[ret.res.scanned][1] > 0


\* =================================================================
\* Holding times of the continuous-time finite chain
\* =================================================================
\* C37: a next of a ContFiniteMarkovChain from index i to index j returns
\* the elapsed time drawn with the total rate of row i, the state left, as
\* Distribution::sample does: the item of next is the item that sample
\* returns on a source in the same state.
C37_NextHoldsAsSample ==
    [][(IterNext /\ kind = "ContFiniteMarkovChain" /\ ret'.kind = "Some") =>
          /\ ret'.val[1][2] = At(transiton_clock, state_index)
          /\ ret'.val = ContFiniteMarkovChain_sample(Self, rng).item]_vars

====
